---- MODULE Spec2Model ----
(***************************************************************************)
(* A model of the pdm player-decision-modelling library:                   *)
(*   goals.py           the goal registry (PlayerGoal.__new__)             *)
(*   player.py          priority synthesis (PlayerModel._synthesize_moe)   *)
(*   engagement.py      decision models and priority factoring             *)
(*   decision.py        decision strategies and the Decision life cycle    *)
(*   analyze_traces.py  merging of per-choice statistics                   *)
(*                                                                         *)
(* Python floats are modelled as exact rationals <<n, d>> with d > 0 in    *)
(* lowest terms; a raised exception is modelled as an error value in the   *)
(* result of the operation that raised it.                                 *)
(***************************************************************************)
EXTENDS Integers, Sequences, FiniteSets, TLC

\* ------------------------------------------------------------------------
\* Bounds of the model
\* ------------------------------------------------------------------------

\* number of distinct goal names used with the registry
MaxNames == 3

\* number of threads constructing goals concurrently
MaxThreads == 3

\* number of modes of engagement of a player model
MaxModes == 2

\* number of options of a choice, and of outcomes of an option
MaxOptions == 3
MaxOutcomes == 2

\* ------------------------------------------------------------------------
\* Exact rational arithmetic (the values Python holds in floats)
\* ------------------------------------------------------------------------

Abs(x) == IF x < 0 THEN -x ELSE x

RECURSIVE GCD(_, _)
GCD(a, b) == IF b = 0 THEN a ELSE GCD(b, a % b)

\* <<n, d>> in lowest terms with a positive denominator
Rat(n, d) ==
  LET s == IF d < 0 THEN -1 ELSE 1
      g == GCD(Abs(n), Abs(d))
  IN  <<(s * n) \div g, (s * d) \div g>>

RInt(k) == <<k, 1>>
RAdd(a, b) == Rat(a[1] * b[2] + b[1] * a[2], a[2] * b[2])
RSub(a, b) == Rat(a[1] * b[2] - b[1] * a[2], a[2] * b[2])
RMul(a, b) == Rat(a[1] * b[1], a[2] * b[2])
\* only used with b # 0
RDiv(a, b) == Rat(a[1] * b[2], a[2] * b[1])
RLt(a, b) == a[1] * b[2] < b[1] * a[2]
RLe(a, b) == a[1] * b[2] <= b[1] * a[2]
RZero == RInt(0)
ROne == RInt(1)

RECURSIVE RPow(_, _)
\* a ** k for an integer k (a # 0 when k < 0)
RPow(a, k) ==
  IF k = 0 THEN ROne
  ELSE IF k > 0 THEN RMul(a, RPow(a, k - 1))
  ELSE RDiv(ROne, RPow(a, -k))

\* ------------------------------------------------------------------------
\* Variables
\* ------------------------------------------------------------------------

VARIABLES
  \* goals.py
  GOALS_REGISTRY,   \* name -> goal object, or NoGoal
  allocated,        \* number of goal objects created so far (object identity)
  lastNew,          \* the last completed sequential PlayerGoal(name) call
  pc,               \* per thread: position inside PlayerGoal.__new__
  call,             \* per thread: the arguments (cls, name) of its call
  ret,              \* per thread: what its call returned
  \* player.py: the fields of one PlayerModel
  modes,                \* mode name -> ModeOfEngagement
  mode_ranking,         \* mode name -> rank
  mode_adjustments,     \* mode name -> adjustment
  goal_adjustments,     \* goal name -> adjustment
  goal_overrides,       \* goal name -> absolute priority (partial)
  synthesized,          \* _synthesized_mode_of_engagement, with the outcome
                        \* of the call that last built it
  player,               \* "unbuilt", "built", or "failed" (__init__ raised)
  priority_method,      \* the player's PriorityMethod
  decision_method,      \* the player's DecisionMethod, by name
  edits,                \* how many changes were made to the player's inputs
  priorities_of,        \* per mode, the mode whose construction made the dict
                        \* object that is the mode's priorities
  \* choice.py, decision.py
  choice,               \* the Choice a decision is made at
  decision,             \* the fields of the Decision object
  result,               \* what the last operation returned or raised
  completed,            \* how often each perception stage was added without error
  \* analyze_traces.py
  breakdowns,           \* the per-choice results passed to combine_per_choice
  combined,             \* what combine_per_choice returned or raised
  trace,                \* the picks (choice name, option name) of a trace
  analysis,             \* what analyze_trace returned or raised
  \* packable.py
  roundtrip             \* an object or plain structure and what packing and
                        \* unpacking it gave

goalVars == <<GOALS_REGISTRY, allocated, lastNew, pc, call, ret>>

playerVars == <<modes, mode_ranking, mode_adjustments, goal_adjustments,
                goal_overrides, synthesized, player, priority_method,
                decision_method, edits, priorities_of>>

decisionVars == <<choice, decision, result, completed>>

analysisVars == <<breakdowns, combined, trace, analysis, roundtrip>>

vars == <<goalVars, playerVars, decisionVars, analysisVars>>

\* Python's None and a present value
None == <<>>
Some(x) == <<x>>

\* the elements of a set of pool[i], in the order of the pool
RECURSIVE InPoolOrder(_, _, _)
InPoolOrder(pool, S, i) ==
  IF i > Len(pool) THEN <<>>
  ELSE (IF pool[i] \in S THEN <<pool[i]>> ELSE <<>>) \o InPoolOrder(pool, S, i + 1)

Range(seq) == { seq[i] : i \in 1..Len(seq) }

\* all orders in which the elements of S can be listed
Orders(S) ==
  { o \in [1..Cardinality(S) -> S] : \A i, j \in 1..Cardinality(S) : o[i] = o[j] => i = j }

\* ------------------------------------------------------------------------
\* goals.py: the registry of interned goals
\* ------------------------------------------------------------------------

GoalNamePool == <<"health", "wealth", "fame", "power", "peace">>
GoalNames == { GoalNamePool[i] : i \in 1..MaxNames }

\* PlayerGoal and its subclasses
GoalClasses == {"PlayerGoal", "AttractionGoal", "AccumulationGoal", "AchievementGoal"}

NoGoal == [id |-> 0, name |-> "", type |-> ""]
NoCall == [cls |-> "", name |-> ""]
TypeError == [id |-> -1, name |-> "", type |-> "TypeError"]

Threads == 1..MaxThreads

\* object.__new__(cls) followed by g.name = name; g.type = cls
NewGoalObject(cls, name) == [id |-> allocated + 1, name |-> name, type |-> cls]

\* a mutant of PlayerGoalNew: the lookup is skipped, every call registers anew
PlayerGoalNewAlwaysFresh(cls, name) ==
  [result |-> NewGoalObject(cls, name),
   registry |-> [GOALS_REGISTRY EXCEPT ![name] = NewGoalObject(cls, name)],
   allocated |-> allocated + 1]

\* PlayerGoal.__new__(cls, name) run without interruption: what it returns and
\* the registry it leaves
PlayerGoalNew(cls, name) ==
  IF GOALS_REGISTRY[name] # NoGoal
  THEN [result |-> IF GOALS_REGISTRY[name].type # cls
                   THEN TypeError
                   ELSE GOALS_REGISTRY[name],
        registry |-> GOALS_REGISTRY,
        allocated |-> allocated]
  ELSE [result |-> NewGoalObject(cls, name),
        registry |-> [GOALS_REGISTRY EXCEPT ![name] = NewGoalObject(cls, name)],
        allocated |-> allocated + 1]

NoNew == [cls |-> "", name |-> "", result |-> NoGoal, registered |-> FALSE]

\* One sequential construction cls(name)
Construct(cls, name) ==
  LET r == PlayerGoalNew(cls, name) IN
  /\ GOALS_REGISTRY' = r.registry
  /\ allocated' = r.allocated
  /\ lastNew' = [cls |-> cls, name |-> name, result |-> r.result,
                 registered |-> GOALS_REGISTRY[name] # NoGoal]
  /\ UNCHANGED <<pc, call, ret>>
  /\ UNCHANGED <<playerVars, decisionVars, analysisVars>>

GoalsNext == \E cls \in GoalClasses, name \in GoalNames : Construct(cls, name)


\* --- the same constructor run by several threads -------------------------
\* CPython may switch threads between the membership test (goals.py line 14)
\* and the store (line 30); nothing in goals.py holds a lock.

ThreadClasses == {"PlayerGoal", "AttractionGoal"}

\* thread t enters cls(name)
ThreadCall(t, cls, name) ==
  /\ pc[t] = "idle"
  /\ pc' = [pc EXCEPT ![t] = "test"]
  /\ call' = [call EXCEPT ![t] = [cls |-> cls, name |-> name]]
  /\ UNCHANGED <<GOALS_REGISTRY, allocated, lastNew, ret>>
  /\ UNCHANGED <<playerVars, decisionVars, analysisVars>>

\* line 14: if name in GOALS_REGISTRY, and the branch taken when it is
ThreadTest(t) ==
  /\ pc[t] = "test"
  /\ IF GOALS_REGISTRY[call[t].name] # NoGoal
     THEN /\ ret' = [ret EXCEPT ![t] =
                       IF GOALS_REGISTRY[call[t].name].type # call[t].cls
                       THEN TypeError
                       ELSE GOALS_REGISTRY[call[t].name]]
          /\ pc' = [pc EXCEPT ![t] = "done"]
     ELSE /\ pc' = [pc EXCEPT ![t] = "create"]
          /\ UNCHANGED ret
  /\ UNCHANGED <<GOALS_REGISTRY, allocated, lastNew, call>>
  /\ UNCHANGED <<playerVars, decisionVars, analysisVars>>

\* lines 27-31: create the object, store it, return it
ThreadCreate(t) ==
  /\ pc[t] = "create"
  /\ GOALS_REGISTRY' = [GOALS_REGISTRY EXCEPT ![call[t].name] =
                          NewGoalObject(call[t].cls, call[t].name)]
  /\ allocated' = allocated + 1
  /\ ret' = [ret EXCEPT ![t] = NewGoalObject(call[t].cls, call[t].name)]
  /\ pc' = [pc EXCEPT ![t] = "done"]
  /\ UNCHANGED <<lastNew, call>>
  /\ UNCHANGED <<playerVars, decisionVars, analysisVars>>

ThreadsNext ==
  \E t \in Threads :
    \/ \E cls \in ThreadClasses, name \in GoalNames : ThreadCall(t, cls, name)
    \/ ThreadTest(t)
    \/ ThreadCreate(t)


\* ------------------------------------------------------------------------
\* engagement.py: ModeOfEngagement;  player.py: priority synthesis
\* ------------------------------------------------------------------------

DEFAULT_PRIORITY == 5

ModeNamePool == <<"explore", "fight", "social", "craft">>
ModeNames == { ModeNamePool[i] : i \in 1..MaxModes }

\* the goals the modes of a player are built from
PlayerGoals == {"health", "wealth"}

\* the priorities a mode gives its goals, the ranks of modes, and the
\* adjustments and overrides a player model is constructed with
ModePriorities == {1, 2}
ModeRanks == {1, 2}
ModeAdjustments == {-3, 0}
GoalAdjustments == {-1, 0}
GoalOverrides == {1}

\* a ModeOfEngagement: its goals (by name) and their priorities
ModeOfEngagement(name, goals, priorities) ==
  [name |-> name, goals |-> goals, priorities |-> priorities]

\* ModeOfEngagement(name): no goals, no priorities
EmptyMode(name) == ModeOfEngagement(name, {}, <<>>)

\* utils.NoDefault, the default of conform_keys that stands for none
NoDefault == None

\* utils.conform_keys(valid, suspect, default): line 34 raises at the first
\* key of suspect that is not in valid, before anything is removed;
\* otherwise the missing keys are added with the default, if there is one
conform_keys(valid, suspect, default) ==
  IF \E k \in DOMAIN suspect : k \notin valid
  THEN [status |-> "RuntimeWarning", dict |-> suspect]
  ELSE [status |-> "ok",
        dict |-> IF default = NoDefault THEN suspect
                 ELSE [k \in valid \cup DOMAIN suspect |->
                         IF k \in DOMAIN suspect THEN suspect[k] ELSE default[1]]]

\* ModeOfEngagement.__init__(name, goal_list, priorities) with a goal list
\* of goals or goal names: the priorities become those given (an empty dict
\* is replaced by a new one) conformed to the goals
ModeOfEngagementNew(name, goal_list, priorities) ==
  LET conformed == conform_keys(goal_list, priorities, Some(DEFAULT_PRIORITY))
  IN  [status |-> conformed.status,
       dict |-> conformed.dict,
       moe |-> ModeOfEngagement(name, goal_list, conformed.dict)]

AllModeGoals(ms) == UNION { ms[m].goals : m \in DOMAIN ms }

\* the fields of the player model that synthesis reads
PlayerInputs ==
  [modes |-> modes, mode_ranking |-> mode_ranking,
   mode_adjustments |-> mode_adjustments,
   goal_adjustments |-> goal_adjustments, goal_overrides |-> goal_overrides]

\* the running state of _synthesize_moe: the mode being built, the base
\* priority of the current rank, the largest priority seen at this rank
SynthStart(name) ==
  [status |-> "ok", moe |-> EmptyMode(name), base |-> 0, max |-> None]

\* one goal gn of mode mn when the first mode that defines a goal fixes its
\* priority: a later, smaller priority does not replace it
SynthGoalFirstWins(p, acc, mn, gn) ==
  LET adjp == IF gn \in DOMAIN p.goal_overrides
              THEN p.goal_overrides[gn]
              ELSE acc.base + p.modes[mn].priorities[gn]
                   + p.mode_adjustments[mn] + p.goal_adjustments[gn]
      seen == gn \in acc.moe.goals
  IN [acc EXCEPT
        !.moe = IF seen THEN @
                ELSE ModeOfEngagement(@.name, @.goals \cup {gn},
                                      (gn :> adjp) @@ @.priorities),
        !.max = IF acc.max = None \/ acc.max[1] < adjp THEN Some(adjp) ELSE @]

\* player.py lines 421-440: one goal gn of mode mn
SynthGoal(p, acc, mn, gn) ==
  IF acc.status # "ok" THEN acc
  ELSE IF gn \notin DOMAIN p.goal_overrides
          /\ ( gn \notin DOMAIN p.modes[mn].priorities
               \/ gn \notin DOMAIN p.goal_adjustments )
  THEN [acc EXCEPT !.status = "KeyError"]
  ELSE
  LET adjp == IF gn \in DOMAIN p.goal_overrides
              THEN p.goal_overrides[gn]
              ELSE acc.base + p.modes[mn].priorities[gn]
                   + p.mode_adjustments[mn] + p.goal_adjustments[gn]
      seen == gn \in acc.moe.goals
  IN [acc EXCEPT
        !.moe = IF seen
                THEN (IF adjp < @.priorities[gn]
                      THEN [@ EXCEPT !.priorities[gn] = adjp]
                      ELSE @)
                ELSE ModeOfEngagement(@.name, @.goals \cup {gn},
                                      (gn :> adjp) @@ @.priorities),
        !.max = IF acc.max = None \/ acc.max[1] < adjp THEN Some(adjp) ELSE @]

RECURSIVE SynthGoals(_, _, _, _)
\* lines 421-440: the goals of mode mn, in the order gs
SynthGoals(p, acc, mn, gs) ==
  IF gs = <<>> THEN acc
  ELSE SynthGoals(p, SynthGoal(p, acc, mn, Head(gs)), mn, Tail(gs))

RECURSIVE SynthModes(_, _, _)
\* lines 418-440: the modes of one rank, in the order ms
SynthModes(p, acc, ms) ==
  IF ms = <<>> THEN acc
  ELSE IF acc.status # "ok" THEN acc
  ELSE IF Head(ms) \notin DOMAIN p.modes \/ Head(ms) \notin DOMAIN p.mode_adjustments
  THEN [acc EXCEPT !.status = "KeyError"]
  ELSE SynthModes(p,
         SynthGoals(p, acc, Head(ms),
                    InPoolOrder(<<"health", "wealth", "fame", "power", "peace">>,
                                p.modes[Head(ms)].goals, 1)),
         Tail(ms))

\* the values of a set of integers in ascending order: sorted(list(set(..)))
RECURSIVE Sorted(_)
Sorted(S) ==
  IF S = {} THEN <<>>
  ELSE LET m == CHOOSE x \in S : \A y \in S : x <= y
       IN  <<m>> \o Sorted(S \ {m})

RECURSIVE SynthRanks(_, _, _, _)
\* lines 410-443: the ranks rs in ascending order; order is the order in which
\* the keys of mode_ranking are visited
SynthRanks(p, acc, rs, order) ==
  IF rs = <<>> \/ acc.status # "ok" THEN acc
  ELSE
  LET modes_here == SelectSeq(order, LAMBDA mn : p.mode_ranking[mn] = Head(rs))
      done == SynthModes(p, [acc EXCEPT !.max = None], modes_here)
  IN  IF done.status # "ok" THEN done
      ELSE IF done.max = None
      \* line 443: None + 1
      THEN [done EXCEPT !.status = "TypeError"]
      ELSE SynthRanks(p, [done EXCEPT !.base = done.max[1] + 1], Tail(rs), order)

\* PlayerModel._synthesize_moe: the new value of
\* _synthesized_mode_of_engagement and whether the call raised
SynthesizeMoe(p, order) ==
  LET r == SynthRanks(p, SynthStart("synthesized"),
                      Sorted({ p.mode_ranking[mn] : mn \in DOMAIN p.mode_ranking }),
                      order)
  IN  [status |-> r.status, moe |-> r.moe]

NoSynthesis == [status |-> "none", moe |-> EmptyMode("")]

\* the modes a player model can be given: every mode has any subset of the
\* goals, each with a priority
ModeValues(name) ==
  { ModeOfEngagement(name, gs, pr) :
      gs \in SUBSET PlayerGoals, pr \in UNION { [G -> ModePriorities] : G \in SUBSET PlayerGoals } }

\* the mode maps a player model can be constructed with
ModeMaps ==
  { ms \in [ModeNames -> UNION { ModeValues(n) : n \in ModeNames }] :
      \A n \in ModeNames : /\ ms[n].name = n
                           /\ DOMAIN ms[n].priorities = ms[n].goals }

\* ------------------------------------------------------------------------
\* choice.py: outcomes, options, choices
\* ------------------------------------------------------------------------

\* Outcome.__init__: the actual likelihood defaults to the apparent one
Outcome(name, goal_effects, salience, apparent_likelihood, actual_likelihood) ==
  [name |-> name,
   goal_effects |-> goal_effects,
   salience |-> salience,
   apparent_likelihood |-> apparent_likelihood,
   actual_likelihood |-> IF actual_likelihood = None
                         THEN apparent_likelihood
                         ELSE actual_likelihood[1]]

\* The outcomes that options are built from.  Valences lie in [-1, 1],
\* saliences and likelihoods in [0, 1].
OutcomeNamed(n) ==
  CASE n = "hurt"  -> Outcome("hurt", ("health" :> RInt(-1)), ROne, ROne, None)
    [] n = "lose"  -> Outcome("lose", ("wealth" :> RInt(-1)) @@ ("fame" :> ROne),
                              ROne, ROne, None)
    [] n = "tip"   -> Outcome("tip", ("wealth" :> Rat(2, 25)), Rat(3, 10),
                              Rat(1, 2), Some(ROne))
    [] n = "nick"  -> Outcome("nick", ("health" :> Rat(-1, 25)), Rat(7, 10),
                              ROne, Some(Rat(1, 2)))
    [] n = "perk"  -> Outcome("perk", ("health" :> Rat(1, 10)), ROne, ROne, None)
    [] n = "ghost" -> Outcome("ghost", ("health" :> ROne), RZero, ROne, None)
    [] n = "miss"  -> Outcome("miss", ("health" :> Rat(-1, 2)), ROne, Rat(1, 2),
                              Some(RZero))

OutcomePool == <<"hurt", "lose", "tip", "nick", "perk", "ghost", "miss">>

\* Option(name, outcomes): outcomes are held by name, in the order given
Option(name, outcomes) == [name |-> name, outcomes |-> outcomes]

\* Choice(name, options): options are held by name, in the order given
Choice(name, options) == [name |-> name, options |-> options]

NoChoice == Choice("", <<>>)

OptionNamePool == <<"stay", "go", "wait", "hide", "run">>

OptionNames(ch) == { ch.options[i].name : i \in 1..Len(ch.options) }

\* choice.options[name]
OptionNamed(ch, name) ==
  ch.options[CHOOSE i \in 1..Len(ch.options) : ch.options[i].name = name]

\* the outcome lists of at most k outcomes drawn from a set of outcome names
OutcomeLists(names, k) ==
  { InPoolOrder(OutcomePool, S, 1) : S \in { T \in SUBSET names : Cardinality(T) <= k } }

\* the choices of 1..n options whose outcome lists are drawn from lists
ChoicesOver(lists, n) ==
  { Choice("crossroads", [i \in DOMAIN f |-> Option(OptionNamePool[i], f[i])]) :
      f \in UNION { [1..m -> lists] : m \in 1..n } }

\* ------------------------------------------------------------------------
\* engagement.py: decision models and priority factoring
\* ------------------------------------------------------------------------

\* perception.Prospective: one prospective impression
Prospective(goal, valence, certainty, salience) ==
  [goal |-> goal, valence |-> valence, certainty |-> certainty, salience |-> salience]

\* Prospective.utility()
utility(pri) == RMul(pri.valence, pri.certainty)

RECURSIVE GoalImpressions(_, _, _)
\* engagement.py lines 353-373, for one goal: the impressions of goal g that
\* the outcomes (by name, in order) leave in a mode with the given goals
GoalImpressions(goals, g, outs) ==
  IF outs = <<>> THEN <<>>
  ELSE LET out == OutcomeNamed(Head(outs)) IN
       ( IF /\ RLt(RZero, RMul(out.salience, out.apparent_likelihood))
            /\ g \in DOMAIN out.goal_effects
            /\ g \in goals
         THEN << Prospective(g, out.goal_effects[g], out.apparent_likelihood,
                             out.salience) >>
         ELSE <<>> )
       \o GoalImpressions(goals, g, Tail(outs))

\* ModeOfEngagement.build_prospective_option_model
build_prospective_option_model(moe, option) ==
  LET touched == { g \in moe.goals : GoalImpressions(moe.goals, g, option.outcomes) # <<>> }
  IN  [g \in touched |-> GoalImpressions(moe.goals, g, option.outcomes)]

\* ModeOfEngagement.build_decision_model: option name -> goal -> impressions,
\* in the order of the options of the choice
build_decision_model(moe, ch) ==
  [i \in 1..Len(ch.options) |->
     [option |-> ch.options[i].name,
      goals |-> build_prospective_option_model(moe, ch.options[i])]]

ModelGoals(dm) == UNION { DOMAIN dm[i].goals : i \in 1..Len(dm) }

\* PriorityMethod objects
SoftPriority(factor) == [kind |-> "softpriority", factor |-> Some(factor)]
HardPriority == [kind |-> "hardpriority", factor |-> None]
\* PriorityMethod.softpriority, the default soft factor 0.75
softpriority == SoftPriority(Rat(3, 4))

\* SoftPriority.factor_decision_model
SoftFactor(pm, dm, priorities) ==
  IF \E g \in ModelGoals(dm) : g \notin DOMAIN priorities
  THEN [status |-> "KeyError", models |-> <<>>, relevances |-> <<>>]
  ELSE [status |-> "ok",
        models |-> <<dm>>,
        relevances |-> [g \in ModelGoals(dm) |-> RPow(pm.factor[1], priorities[g] - 1)]]

\* HardPriority.factor_decision_model
HardFactor(dm, priorities) ==
  IF \E g \in ModelGoals(dm) : g \notin DOMAIN priorities
  THEN [status |-> "KeyError", models |-> <<>>, relevances |-> <<>>]
  ELSE
  LET priority_levels == Sorted({ priorities[g] : g \in DOMAIN priorities }) IN
  [status |-> "ok",
   models |-> [l \in 1..Len(priority_levels) |->
                 [i \in 1..Len(dm) |->
                    [option |-> dm[i].option,
                     goals |-> [g \in { h \in DOMAIN dm[i].goals :
                                          priorities[h] <= priority_levels[l] }
                                  |-> dm[i].goals[g]]]]],
   relevances |-> [g \in ModelGoals(dm) |-> ROne]]

\* PriorityMethod.factor_decision_model, by subclass
factor_decision_model(pm, dm, priorities) ==
  IF pm.kind = "softpriority" THEN SoftFactor(pm, dm, priorities)
  ELSE HardFactor(dm, priorities)

\* ------------------------------------------------------------------------
\* decision.py: decision methods
\* ------------------------------------------------------------------------

DecisionMethods == {"maximizing", "satisficing", "utilizing", "randomizing"}

\* Utilizing.value_resolution = 0.09
value_resolution == Rat(9, 100)

\* Python truthiness of a field holding None or a dict
Truthy(field) == field # None /\ field[1] # <<>>

RECURSIVE SumUtilities(_, _)
\* lines 258-263, for one goal: the sum of pri.utility() * relevance
SumUtilities(pris, relevance) ==
  IF pris = <<>> THEN RZero
  ELSE RAdd(RMul(utility(Head(pris)), relevance), SumUtilities(Tail(pris), relevance))

RECURSIVE OptionUtility(_, _, _)
\* lines 256-263: the utility of one option, summed over the goals gs of
\* its model; a goal without a relevance counts with relevance 1
OptionUtility(goals, goal_relevance, gs) ==
  IF gs = {} THEN RZero
  ELSE LET g == CHOOSE h \in gs : TRUE
           rel == IF g \in DOMAIN goal_relevance THEN goal_relevance[g] ELSE ROne
       IN  RAdd(SumUtilities(goals[g], rel),
                OptionUtility(goals, goal_relevance, gs \ {g}))

\* lines 253-263: utilities, in the order of the options of the model
Utilities(decision_model, goal_relevance) ==
  [i \in 1..Len(decision_model) |->
     [option |-> decision_model[i].option,
      u |-> OptionUtility(decision_model[i].goals, goal_relevance,
                          DOMAIN decision_model[i].goals)]]

RECURSIVE InsertDesc(_, _)
InsertDesc(x, seq) ==
  IF seq = <<>> THEN <<x>>
  ELSE IF RLe(Head(seq), x) THEN <<x>> \o seq
  ELSE <<Head(seq)>> \o InsertDesc(x, Tail(seq))

RECURSIVE SortDesc(_)
\* reversed(sorted(values)): one entry per value, duplicates kept
SortDesc(seq) ==
  IF seq = <<>> THEN <<>> ELSE InsertDesc(Head(seq), SortDesc(Tail(seq)))

\* [gn for (gn, uv) in utilities.items() if uv == u]
RECURSIVE NamesWithUtility(_, _)
NamesWithUtility(utilities, u) ==
  IF utilities = <<>> THEN <<>>
  ELSE (IF Head(utilities).u = u THEN <<Head(utilities).option>> ELSE <<>>)
       \o NamesWithUtility(Tail(utilities), u)

\* lines 265-270: one class per entry of ulevels
Strict(utilities) ==
  LET ulevels == SortDesc([i \in 1..Len(utilities) |-> utilities[i].u])
  IN  [k \in 1..Len(ulevels) |->
         [u |-> ulevels[k], options |-> NamesWithUtility(utilities, ulevels[k])]]

\* strict.pop(i)
PopAt(seq, i) == SubSeq(seq, 1, i - 1) \o SubSeq(seq, i + 1, Len(seq))

RECURSIVE MergeLevelsAcrossZero(_, _)
\* a merge loop without the test of lines 276-278, which merges classes
\* closer than the resolution whatever their signs
MergeLevelsAcrossZero(strict, i) ==
  IF ~(i < Len(strict)) THEN strict
  ELSE
  LET u1 == strict[i].u
      u2 == strict[i + 1].u
  IN  IF RLt(RSub(u1, u2), value_resolution)
      THEN LET ol == strict[i].options
               popped == PopAt(strict, i)
           IN  MergeLevelsAcrossZero(
                 [popped EXCEPT ![i] = [u |-> RDiv(RAdd(u1, u2), RInt(2)),
                                        options |-> @.options \o ol]],
                 i)
      ELSE MergeLevelsAcrossZero(strict, i + 1)

RECURSIVE MergeLevelsAdvancing(_, _)
\* a merge loop that moves on after a merge, so that a merged class is
\* never compared with the class that follows it
MergeLevelsAdvancing(strict, i) ==
  IF ~(i < Len(strict)) THEN strict
  ELSE
  LET u1 == strict[i].u
      u2 == strict[i + 1].u
  IN  IF \/ RLt(RZero, u1) /\ RLe(u2, RZero)
         \/ RLe(RZero, u1) /\ RLt(u2, RZero)
      THEN MergeLevelsAdvancing(strict, i + 1)
      ELSE IF RLt(RSub(u1, u2), value_resolution)
      THEN LET ol == strict[i].options
               popped == PopAt(strict, i)
           IN  MergeLevelsAdvancing(
                 [popped EXCEPT ![i] = [u |-> RDiv(RAdd(u1, u2), RInt(2)),
                                        options |-> @.options \o ol]],
                 i + 1)
      ELSE MergeLevelsAdvancing(strict, i + 1)

RECURSIVE MergeLevels(_, _)
\* lines 272-289: the merge loop, i counting from 1
MergeLevels(strict, i) ==
  IF ~(i < Len(strict)) THEN strict
  ELSE
  LET u1 == strict[i].u
      u2 == strict[i + 1].u
  IN  IF \/ RLt(RZero, u1) /\ RLe(u2, RZero)
         \/ RLe(RZero, u1) /\ RLt(u2, RZero)
      THEN MergeLevels(strict, i + 1)
      ELSE IF RLt(RSub(u1, u2), value_resolution)
      THEN LET ol == strict[i].options
               popped == PopAt(strict, i)
           IN  MergeLevels(
                 [popped EXCEPT ![i] = [u |-> RDiv(RAdd(u1, u2), RInt(2)),
                                        options |-> @.options \o ol]],
                 i)
      ELSE MergeLevels(strict, i + 1)

\* line 262 with goal_relevance = None: "goal in None" raises TypeError
RankOptionsRaises(d) ==
  /\ d.goal_relevance = None
  /\ \E i \in 1..Len(d.prospective_impressions[1]) :
       \E g \in DOMAIN d.prospective_impressions[1][i].goals :
         d.prospective_impressions[1][i].goals[g] # <<>>

\* Utilizing.rank_options, for a decision with prospective impressions
rank_options(d) ==
  MergeLevels(Strict(Utilities(d.prospective_impressions[1],
                               IF d.goal_relevance = None THEN <<>>
                               ELSE d.goal_relevance[1])), 1)

\* what an operation returned or raised.  returned is "option" for an
\* option name, "number" for a float (in value), "None" for Python None
\* (also for a constructor that built its object); candidates and option
\* also hold the names a constructor or an add was given
NoResult ==
  [op |-> "none", method |-> "", status |-> "none", returned |-> "nothing",
   option |-> "", value |-> None, candidates |-> <<>>, ranked |-> <<>>]

Raised(op, method, error) ==
  [NoResult EXCEPT !.op = op, !.method = method, !.status = error]

ReturnedNone(op, method) ==
  [NoResult EXCEPT !.op = op, !.method = method, !.status = "ok", !.returned = "None"]

ReturnedNumber(op, method, x, ranked) ==
  [NoResult EXCEPT !.op = op, !.method = method, !.status = "ok",
                   !.returned = "number", !.value = Some(x), !.ranked = ranked]

\* random.choice(candidates) picked candidates[k]
ReturnedOption(op, method, candidates, k, ranked) ==
  [NoResult EXCEPT !.op = op, !.method = method, !.status = "ok",
                   !.returned = "option", !.option = candidates[k],
                   !.candidates = candidates, !.ranked = ranked]

\* the results of Maximizing.decide and Satisficing.decide (lines 133-148,
\* 179-194): the precondition is checked, the body is "pass"
UnimplementedDecide(method, d) ==
  IF ~Truthy(d.prospective_impressions)
  THEN { Raised("decide", method, "ValueError") }
  ELSE { ReturnedNone("decide", method) }

\* Maximizing.consistency and Satisficing.consistency (lines 150-167,
\* 196-213): both preconditions are checked, the body is "pass"
UnimplementedConsistency(method, d) ==
  IF d.option = None THEN Raised("consistency", method, "ValueError")
  ELSE IF ~Truthy(d.prospective_impressions)
  THEN Raised("consistency", method, "ValueError")
  ELSE ReturnedNone("consistency", method)

\* Utilizing.decide: the results random.choice(best) can give
UtilizingDecide(d) ==
  IF ~Truthy(d.prospective_impressions)
  THEN { Raised("decide", "utilizing", "ValueError") }
  ELSE IF RankOptionsRaises(d)
  THEN { Raised("decide", "utilizing", "TypeError") }
  ELSE UNION { { ReturnedOption("decide", "utilizing", ranked[1].options, k, ranked) :
                   k \in 1..Len(ranked[1].options) } :
               ranked \in { rank_options(d) } }

\* lines 334-338: the utility of the first class that holds the option
RECURSIVE ChosenUtility(_, _)
ChosenUtility(ranked, name) ==
  IF ranked = <<>> THEN None
  ELSE IF \E k \in 1..Len(Head(ranked).options) : Head(ranked).options[k] = name
  THEN Some(Head(ranked).u)
  ELSE ChosenUtility(Tail(ranked), name)

\* lines 329-359 of Utilizing.consistency, for the classes ranked and the
\* name of the chosen option
ScoreAmong(ranked, name) ==
  LET best_utility == ranked[1].u
      worst_utility == ranked[Len(ranked)].u
      lower_bound == RAdd(Rat(-1, 2), RDiv(worst_utility, RInt(2)))
      chosen_utility == ChosenUtility(ranked, name)
      denom == RSub(best_utility, lower_bound)
  IN  IF chosen_utility = None
      THEN Raised("consistency", "utilizing", "RuntimeError")
      ELSE IF denom = RZero
      THEN ReturnedNumber("consistency", "utilizing", ROne, ranked)
      ELSE ReturnedNumber("consistency", "utilizing",
                          RDiv(RSub(chosen_utility[1], lower_bound), denom), ranked)

\* Utilizing.consistency
UtilizingConsistency(d) ==
  IF d.option = None THEN Raised("consistency", "utilizing", "ValueError")
  ELSE IF ~Truthy(d.prospective_impressions)
  THEN Raised("consistency", "utilizing", "ValueError")
  ELSE IF RankOptionsRaises(d)
  THEN Raised("consistency", "utilizing", "TypeError")
  ELSE CHOOSE score \in { ScoreAmong(ranked, d.option[1]) :
                            ranked \in { rank_options(d) } } : TRUE

\* Randomizing.decide: no precondition is checked; random.choice of an
\* empty list raises IndexError
RandomizingDecide(d, ch) ==
  IF ch.options = <<>>
  THEN { Raised("decide", "randomizing", "IndexError") }
  ELSE LET keys == [i \in 1..Len(ch.options) |-> ch.options[i].name]
       IN  { ReturnedOption("decide", "randomizing", keys, k, <<>>) :
               k \in 1..Len(keys) }

\* Randomizing.consistency
RandomizingConsistency(d) ==
  IF d.option = None THEN Raised("consistency", "randomizing", "ValueError")
  ELSE IF ~Truthy(d.prospective_impressions)
  THEN Raised("consistency", "randomizing", "ValueError")
  ELSE ReturnedNumber("consistency", "randomizing", ROne, <<>>)

\* decision_method.decide(decision), by subclass: the possible results
Decide(method, d, ch) ==
  CASE method = "utilizing" -> UtilizingDecide(d)
    [] method = "randomizing" -> RandomizingDecide(d, ch)
    [] OTHER -> UnimplementedDecide(method, d)

\* decision_method.consistency(decision), by subclass
Consistency(method, d) ==
  CASE method = "utilizing" -> UtilizingConsistency(d)
    [] method = "randomizing" -> RandomizingConsistency(d)
    [] OTHER -> UnimplementedConsistency(method, d)


\* ------------------------------------------------------------------------
\* decision.py: the Decision object
\* ------------------------------------------------------------------------

\* the fields of a Decision; exists is FALSE until a constructor returned.
\* option holds the name of the chosen Option, outcomes the names of the
\* sampled outcomes
NoDecision ==
  [exists |-> FALSE, option |-> None, outcomes |-> <<>>,
   prospective_impressions |-> None, factored_decision_models |-> None,
   goal_relevance |-> None, retrospective_impressions |-> None,
   simplified_retrospectives |-> None]

\* Decision.__init__(choice, option, retrospective_impressions=retro), the
\* other arguments left at None.  A truthy retro calls
\* add_simplified_retrospectives, which reads self.simplified_retrospectives
\* before the constructor has set it
DecisionNew(ch, option, retro) ==
  IF option # None /\ option[1] \notin OptionNames(ch)
  THEN [status |-> "KeyError", decision |-> NoDecision]
  ELSE IF Truthy(retro)
  THEN [status |-> "AttributeError", decision |-> NoDecision]
  ELSE [status |-> "ok",
        decision |-> [NoDecision EXCEPT !.exists = TRUE, !.option = option,
                                        !.retrospective_impressions = retro]]

\* Decision.add_prospective_impressions
add_prospective_impressions(d, pm, moe, ch) ==
  IF d.prospective_impressions # None \/ d.goal_relevance # None
  THEN [status |-> "RuntimeError", decision |-> d]
  ELSE LET dm == build_decision_model(moe, ch)
           factored == factor_decision_model(pm, dm, moe.priorities)
       IN  IF factored.status # "ok"
           THEN [status |-> factored.status,
                 decision |-> [d EXCEPT !.prospective_impressions = Some(dm)]]
           ELSE [status |-> "ok",
                 decision |-> [d EXCEPT !.prospective_impressions = Some(dm),
                                        !.factored_decision_models = Some(factored.models),
                                        !.goal_relevance = Some(factored.relevances)]]

\* a selection is an option name (a str), an Option object, or anything
\* else (None); for a str only the name of the option field is meaningful
StrSelection(name) == [type |-> "str", option |-> Option(name, <<>>)]
OptionSelection(option) == [type |-> "Option", option |-> option]
NoneSelection == [type |-> "NoneType", option |-> Option("", <<>>)]

\* Decision.select_option.  The options of a choice are keyed by name, so
\* line 850 looks an Option object up among str keys
select_option(d, ch, selection) ==
  IF selection.type = "str"
  THEN IF selection.option.name \in OptionNames(ch)
       THEN [status |-> "ok", decision |-> [d EXCEPT !.option = Some(selection.option.name)]]
       ELSE [status |-> "KeyError", decision |-> d]
  ELSE IF selection.type = "Option"
  THEN IF ~ \E i \in 1..Len(ch.options) : ch.options[i] = selection.option
       THEN [status |-> "ValueError", decision |-> d]
       ELSE [status |-> "KeyError", decision |-> d]
  ELSE [status |-> "TypeError", decision |-> d]

\* Decision.roll_outcomes.  Option.sample_outcomes (choice.py lines 354-368)
\* reads out.probability, which Outcome does not have, for every outcome
roll_outcomes(d, ch) ==
  IF d.option = None
  THEN [status |-> "RuntimeError", decision |-> d]
  ELSE IF OptionNamed(ch, d.option[1]).outcomes # <<>>
  THEN [status |-> "AttributeError", decision |-> d]
  ELSE [status |-> "ok", decision |-> [d EXCEPT !.outcomes = <<>>]]

\* Decision.add_retrospective_impressions.  Line 915 indexes the
\* prospective impressions, keyed by option name, with self.option (an
\* Option or None): TypeError on None impressions, KeyError otherwise
add_retrospective_impressions(d, ch) ==
  IF d.retrospective_impressions # None \/ d.simplified_retrospectives # None
  THEN [status |-> "RuntimeError", decision |-> d]
  ELSE LET started == [d EXCEPT !.retrospective_impressions = Some(<<>>)]
           rolled == IF d.outcomes = <<>>
                     THEN roll_outcomes(started, ch)
                     ELSE [status |-> "ok", decision |-> started]
       IN  IF rolled.status # "ok" THEN rolled
           ELSE IF rolled.decision.prospective_impressions = None
           THEN [status |-> "TypeError", decision |-> rolled.decision]
           ELSE [status |-> "KeyError", decision |-> rolled.decision]

\* perception.Retrospective.merge_retrospective_impressions: the bundle
\* of the impressions of one goal
merge_retrospective_impressions(ilist) == [merged |-> ilist]

\* Decision.add_simplified_retrospectives: the guard is the truthiness of
\* the field, so an empty dict does not count as added
add_simplified_retrospectives(d) ==
  IF Truthy(d.simplified_retrospectives)
  THEN [status |-> "RuntimeError", decision |-> d]
  ELSE IF d.retrospective_impressions = None
  THEN [status |-> "TypeError",
        decision |-> [d EXCEPT !.simplified_retrospectives = Some(<<>>)]]
  ELSE LET retro == d.retrospective_impressions[1]
       IN  [status |-> "ok",
            decision |-> [d EXCEPT !.simplified_retrospectives =
                            Some([g \in DOMAIN retro |->
                                    merge_retrospective_impressions(retro[g])])]]

\* the perception stages of a Decision, by the operation that adds them
Stages == {"add_prospective_impressions", "add_retrospective_impressions",
           "add_simplified_retrospectives"}

\* how often a stage may be added in one behaviour
MaxAdds == 2

NoneCompleted == [st \in Stages |-> 0]

\* a stage operation returned: its status, and its count if it succeeded
StageDone(op, r) ==
  /\ decision' = r.decision
  /\ result' = IF r.status = "ok" THEN ReturnedNone(op, "")
               ELSE Raised(op, "", r.status)
  /\ completed' = IF r.status = "ok"
                  THEN [completed EXCEPT ![op] = @ + 1]
                  ELSE completed

\* the retrospective_impressions arguments of the constructor: None, an
\* empty dict, a dict with one goal and no impressions
RetrospectiveArgs == {None, Some(<<>>), Some(("health" :> <<>>))}

\* decision.Decision(choice, option, retrospective_impressions=retro)
Decision(option, retro) ==
  /\ player = "built"
  /\ ~decision.exists
  /\ LET r == DecisionNew(choice, option, retro) IN
       /\ decision' = r.decision
       /\ result' = IF r.status = "ok" THEN ReturnedNone("Decision", "")
                    ELSE Raised("Decision", "", r.status)
  /\ UNCHANGED <<choice, completed>>
  /\ UNCHANGED <<goalVars, playerVars, analysisVars>>

\* dec.add_prospective_impressions(priority_method, synthesized mode)
AddProspectiveImpressions ==
  /\ decision.exists
  /\ completed["add_prospective_impressions"] < MaxAdds
  /\ StageDone("add_prospective_impressions",
               add_prospective_impressions(decision, priority_method,
                                           synthesized.moe, choice))
  /\ UNCHANGED choice
  /\ UNCHANGED <<goalVars, playerVars, analysisVars>>

\* dec.select_option(selection)
SelectOption(selection) ==
  /\ decision.exists
  /\ LET r == select_option(decision, choice, selection) IN
       /\ decision' = r.decision
       /\ result' = IF r.status = "ok" THEN ReturnedNone("select_option", "")
                    ELSE Raised("select_option", "", r.status)
  /\ UNCHANGED <<choice, completed>>
  /\ UNCHANGED <<goalVars, playerVars, analysisVars>>

\* dec.roll_outcomes()
RollOutcomes ==
  /\ decision.exists
  /\ LET r == roll_outcomes(decision, choice) IN
       /\ decision' = r.decision
       /\ result' = IF r.status = "ok" THEN ReturnedNone("roll_outcomes", "")
                    ELSE Raised("roll_outcomes", "", r.status)
  /\ UNCHANGED <<choice, completed>>
  /\ UNCHANGED <<goalVars, playerVars, analysisVars>>

\* dec.add_retrospective_impressions()
AddRetrospectiveImpressions ==
  /\ decision.exists
  /\ completed["add_retrospective_impressions"] < MaxAdds
  /\ StageDone("add_retrospective_impressions",
               add_retrospective_impressions(decision, choice))
  /\ UNCHANGED choice
  /\ UNCHANGED <<goalVars, playerVars, analysisVars>>

\* dec.add_simplified_retrospectives()
AddSimplifiedRetrospectives ==
  /\ decision.exists
  /\ completed["add_simplified_retrospectives"] < MaxAdds
  /\ StageDone("add_simplified_retrospectives",
               add_simplified_retrospectives(decision))
  /\ UNCHANGED choice
  /\ UNCHANGED <<goalVars, playerVars, analysisVars>>

\* DecisionMethod.<method>.decide(dec)
MethodDecide(method) ==
  /\ decision.exists
  /\ result' \in Decide(method, decision, choice)
  /\ UNCHANGED <<choice, decision, completed>>
  /\ UNCHANGED <<goalVars, playerVars, analysisVars>>

\* DecisionMethod.<method>.consistency(dec)
MethodConsistency(method) ==
  /\ decision.exists
  /\ result' = Consistency(method, decision)
  /\ UNCHANGED <<choice, decision, completed>>
  /\ UNCHANGED <<goalVars, playerVars, analysisVars>>

DecisionNext ==
  \/ \E option \in {None} \cup { Some(n) : n \in OptionNames(choice) },
        retro \in RetrospectiveArgs :
       Decision(option, retro)
  \/ AddProspectiveImpressions
  \/ \E n \in OptionNames(choice) : SelectOption(StrSelection(n))
  \/ \E i \in 1..Len(choice.options) : SelectOption(OptionSelection(choice.options[i]))
  \/ RollOutcomes
  \/ AddRetrospectiveImpressions
  \/ AddSimplifiedRetrospectives
  \/ \E method \in DecisionMethods : MethodDecide(method)
  \/ \E method \in DecisionMethods : MethodConsistency(method)

\* ------------------------------------------------------------------------
\* analyze_traces.py: combine_per_choice
\* ------------------------------------------------------------------------

\* number of per-choice results combined in one call
MaxBreakdowns == 3

ChoiceNamePool == <<"door", "bridge", "cave">>

\* one entry of a per-choice result: (weight, {model name: average})
Entry(weight, averages) == [weight |-> weight, averages |-> averages]

\* the state of the loops of combine_per_choice
CombineStart(last) ==
  [status |-> "ok", result |-> last, new_averages |-> None]

\* averages that give both results the same weight, whatever their counts
NewAveragesUnweighted(old, other) ==
  [pmn \in DOMAIN old.averages |->
     RDiv(RAdd(old.averages[pmn], other.averages[pmn]), RInt(2))]

\* lines 70-75: the weighted averages, one per model of old
NewAverages(old, other) ==
  [pmn \in DOMAIN old.averages |->
     RDiv(RAdd(RMul(old.averages[pmn], RInt(old.weight)),
               RMul(other.averages[pmn], RInt(other.weight))),
          RInt(old.weight + other.weight))]

\* lines 58-76: one key of other.  The model names of the entry in result
\* are compared with those of the averages computed by the previous merge
CombineKey(st, other, key) ==
  IF st.status # "ok" THEN st
  ELSE IF key \notin DOMAIN st.result
  THEN [st EXCEPT !.result = (key :> other[key]) @@ @]
  ELSE
  LET old == st.result[key]
  IN  IF /\ Truthy(st.new_averages)
         /\ DOMAIN old.averages # DOMAIN st.new_averages[1]
      THEN [st EXCEPT !.status = "ValueError"]
      ELSE IF \E pmn \in DOMAIN old.averages : pmn \notin DOMAIN other[key].averages
      THEN [st EXCEPT !.status = "KeyError"]
      ELSE IF old.weight + other[key].weight = 0 /\ DOMAIN old.averages # {}
      THEN [st EXCEPT !.status = "ZeroDivisionError"]
      ELSE LET new_averages == NewAverages(old, other[key])
           IN  [st EXCEPT
                  !.result[key] = Entry(old.weight + other[key].weight, new_averages),
                  !.new_averages = Some(new_averages)]

RECURSIVE CombineKeys(_, _, _)
\* line 57: the keys of other, in the order of the dict
CombineKeys(st, other, keys) ==
  IF keys = <<>> THEN st
  ELSE CombineKeys(CombineKey(st, other, Head(keys)), other, Tail(keys))

RECURSIVE CombineArgs(_, _)
\* lines 55-76: args.pop() takes the remaining results from the end
CombineArgs(st, args) ==
  IF args = <<>> THEN st
  ELSE LET other == args[Len(args)]
       IN  CombineArgs(CombineKeys(st, other,
                                   InPoolOrder(ChoiceNamePool, DOMAIN other, 1)),
                       SubSeq(args, 1, Len(args) - 1))

\* combine_per_choice(*args): what it returns or raises, and the object it
\* returns, which is the last argument, updated in place
combine_per_choice(args) ==
  LET done == CombineArgs(CombineStart(args[Len(args)]), SubSeq(args, 1, Len(args) - 1))
  IN  [status |-> done.status, result |-> done.result]

NotCombined == [status |-> "none", result |-> <<>>, args |-> <<>>]

\* nothing has been packed or unpacked
NoRoundTrip ==
  [cls |-> "", direction |-> "", input |-> None, status |-> "none", output |-> None]

\* analyze_trace has not been called
NotAnalyzed ==
  [status |-> "none", averages |-> <<>>, trajectories |-> <<>>, per_choice |-> <<>>]

\* combine_per_choice(*breakdowns), once on the arguments drawn: the last
\* argument is the object that is updated and returned; args keeps the
\* arguments as they were passed
CombinePerChoice ==
  /\ combined.status = "none"
  /\ \E r \in { combine_per_choice(breakdowns) } :
       /\ combined' = [status |-> r.status, result |-> r.result, args |-> breakdowns]
       /\ breakdowns' = [breakdowns EXCEPT ![Len(breakdowns)] = r.result]
  /\ UNCHANGED <<trace, analysis, roundtrip>>
  /\ UNCHANGED <<goalVars, playerVars, decisionVars>>

CombineNext == CombinePerChoice

\* the result of an operation op that returns nothing: a constructor or a
\* change made to a mode or to an attribute of a player model
Edited(op, status) ==
  IF status = "ok" THEN ReturnedNone(op, "") ELSE Raised(op, "", status)

\* PlayerModel.__init__ lines 126-171, the arguments being the initial
\* values of the four attributes: each is conformed to the names of the
\* modes or of their goals, and the constructor ends by synthesizing
PlayerModelInit ==
  /\ player = "unbuilt"
  /\ \E ranking \in { conform_keys(DOMAIN modes, mode_ranking, Some(DEFAULT_PRIORITY)) },
        adjustments \in { conform_keys(DOMAIN modes, mode_adjustments, Some(0)) },
        goal_adj \in { conform_keys(AllModeGoals(modes), goal_adjustments, Some(0)) },
        overrides \in { conform_keys(AllModeGoals(modes), goal_overrides, NoDefault) } :
       IF \E c \in {ranking, adjustments, goal_adj, overrides} : c.status # "ok"
       THEN /\ player' = "failed"
            /\ result' = Edited("PlayerModel", "RuntimeWarning")
            /\ UNCHANGED <<mode_ranking, mode_adjustments, goal_adjustments,
                           goal_overrides, synthesized>>
       ELSE /\ mode_ranking' = ranking.dict
            /\ mode_adjustments' = adjustments.dict
            /\ goal_adjustments' = goal_adj.dict
            /\ goal_overrides' = overrides.dict
            /\ \E order \in Orders(DOMAIN modes) :
                 synthesized' = SynthesizeMoe(
                                  [modes |-> modes, mode_ranking |-> ranking.dict,
                                   mode_adjustments |-> adjustments.dict,
                                   goal_adjustments |-> goal_adj.dict,
                                   goal_overrides |-> overrides.dict], order)
            /\ player' = IF synthesized'.status = "ok" THEN "built" ELSE "failed"
            /\ result' = Edited("PlayerModel", synthesized'.status)
  /\ UNCHANGED <<modes, priority_method, decision_method, edits, priorities_of>>
  /\ UNCHANGED <<choice, decision, completed>>
  /\ UNCHANGED <<goalVars, analysisVars>>

\* PlayerModel.combined_mode_of_engagement
combined_mode_of_engagement ==
  /\ player = "built"
  /\ \E order \in Orders(DOMAIN mode_ranking) :
       synthesized' = SynthesizeMoe(PlayerInputs, order)
  /\ result' = IF synthesized'.status = "ok"
               THEN [NoResult EXCEPT !.op = "combined_mode_of_engagement",
                                     !.status = "ok", !.returned = "mode"]
               ELSE [NoResult EXCEPT !.op = "combined_mode_of_engagement",
                                     !.status = synthesized'.status]
  /\ UNCHANGED <<modes, mode_ranking, mode_adjustments, goal_adjustments,
                 goal_overrides, player, priority_method, decision_method, edits,
                 priorities_of>>
  /\ UNCHANGED <<choice, decision, completed>>
  /\ UNCHANGED <<goalVars, analysisVars>>

PlayerNext ==
  \/ PlayerModelInit
  \/ combined_mode_of_engagement

\* ------------------------------------------------------------------------
\* Specifications
\* ------------------------------------------------------------------------

\* Every specification starts with an empty goal registry and idle threads;
\* a specification that is not about the player model leaves it unbuilt.

\* sequential goal construction
InitGoals ==
  /\ GOALS_REGISTRY = [n \in GoalNames |-> NoGoal]
  /\ allocated = 0
  /\ lastNew = NoNew
  /\ pc = [t \in Threads |-> "idle"]
  /\ call = [t \in Threads |-> NoCall]
  /\ ret = [t \in Threads |-> NoGoal]
  /\ modes = <<>>
  /\ mode_ranking = <<>>
  /\ mode_adjustments = <<>>
  /\ goal_adjustments = <<>>
  /\ goal_overrides = <<>>
  /\ synthesized = NoSynthesis
  /\ player = "unbuilt"
  /\ priority_method = softpriority
  /\ decision_method = "utilizing"
  /\ edits = 0
  /\ priorities_of = [mn \in DOMAIN modes |-> mn]
  /\ choice = NoChoice
  /\ decision = NoDecision
  /\ result = NoResult
  /\ completed = NoneCompleted
  /\ breakdowns = <<>>
  /\ combined = NotCombined
  /\ trace = <<>>
  /\ analysis = NotAnalyzed
  /\ roundtrip = NoRoundTrip

SpecGoals == InitGoals /\ [][GoalsNext]_vars

\* goal construction by concurrent threads
SpecGoalThreads == InitGoals /\ [][ThreadsNext]_vars

\* construction of a player model and synthesis of its combined mode.
\* PlayerModel.__init__ lines 126-169 with arguments whose keys are valid:
\* every mode has a rank and an adjustment, every goal of a mode has an
\* adjustment, and overrides name goals of the modes only
InitPlayer ==
  /\ GOALS_REGISTRY = [n \in GoalNames |-> NoGoal]
  /\ allocated = 0
  /\ lastNew = NoNew
  /\ pc = [t \in Threads |-> "idle"]
  /\ call = [t \in Threads |-> NoCall]
  /\ ret = [t \in Threads |-> NoGoal]
  /\ modes \in ModeMaps
  /\ mode_ranking \in [ModeNames -> ModeRanks]
  /\ mode_adjustments \in [ModeNames -> ModeAdjustments]
  /\ goal_adjustments \in [AllModeGoals(modes) -> GoalAdjustments]
  /\ goal_overrides \in UNION { [G -> GoalOverrides] : G \in SUBSET AllModeGoals(modes) }
  /\ synthesized = NoSynthesis
  /\ player = "unbuilt"
  /\ priority_method = softpriority
  /\ decision_method = "utilizing"
  /\ edits = 0
  /\ priorities_of = [mn \in DOMAIN modes |-> mn]
  /\ choice = NoChoice
  /\ decision = NoDecision
  /\ result = NoResult
  /\ completed = NoneCompleted
  /\ breakdowns = <<>>
  /\ combined = NotCombined
  /\ trace = <<>>
  /\ analysis = NotAnalyzed
  /\ roundtrip = NoRoundTrip

SpecPlayer == InitPlayer /\ [][PlayerNext]_vars

\* ------------------------------------------------------------------------
\* player.py: assess_decision and make_decision
\* ------------------------------------------------------------------------

\* a Decision prepared from the synthesis kept from the previous call
\* rather than from the one just computed
PreparedDecisionCached(synth) ==
  IF synthesized.status # "ok"
  THEN [status |-> synthesized.status, decision |-> NoDecision]
  ELSE add_prospective_impressions(DecisionNew(choice, None, None).decision,
                                   priority_method, synthesized.moe, choice)

\* lines 452-457 and 474-479: the fresh Decision of the choice with the
\* prospective impressions of the synthesized mode; status is that of
\* _synthesize_moe or of add_prospective_impressions
PreparedDecision(synth) ==
  IF synth.status # "ok"
  THEN [status |-> synth.status, decision |-> NoDecision]
  ELSE add_prospective_impressions(DecisionNew(choice, None, None).decision,
                                   priority_method, synth.moe, choice)

\* the stages added to the Decision a player method built
StagesOf(d) ==
  [st \in Stages |->
     IF st = "add_prospective_impressions" /\ d.goal_relevance # None THEN 1 ELSE 0]

\* PlayerModel.assess_decision(choice, option)
assess_decision(selection) ==
  /\ player = "built"
  /\ \E order \in Orders(DOMAIN mode_ranking) :
     \E synth \in { SynthesizeMoe(PlayerInputs, order) } :
     \E prepared \in { PreparedDecision(synth) } :
     \E selected \in { IF prepared.status # "ok" THEN prepared
                       ELSE select_option(prepared.decision, choice, selection) } :
     \E assessed \in { IF selected.status # "ok"
                       THEN Raised("", decision_method, selected.status)
                       ELSE Consistency(decision_method, selected.decision) } :
       /\ synthesized' = synth
       /\ decision' = selected.decision
       /\ result' = [assessed EXCEPT !.op = "assess_decision"]
       /\ completed' = StagesOf(selected.decision)
  /\ UNCHANGED <<modes, mode_ranking, mode_adjustments, goal_adjustments,
                 goal_overrides, player, priority_method, decision_method, edits,
                 priorities_of>>
  /\ UNCHANGED <<goalVars, choice, analysisVars>>

\* lines 458-463 of make_decision, for the result decided of decide(dec):
\* select_option, roll_outcomes, add_retrospective_impressions, and the
\* return of the module "decision" in place of dec
AfterDecide(d, decided) ==
  IF decided.status # "ok" THEN [status |-> decided.status, decision |-> d]
  ELSE
  LET selected == select_option(d, choice,
                                IF decided.returned = "option"
                                THEN StrSelection(decided.option)
                                ELSE NoneSelection)
      rolled == IF selected.status # "ok" THEN selected
                ELSE roll_outcomes(selected.decision, choice)
  IN  IF rolled.status # "ok" THEN rolled
      ELSE add_retrospective_impressions(rolled.decision, choice)

\* the result of make_decision when decide returned or raised decided
MadeResult(decided, status) ==
  [decided EXCEPT !.op = "make_decision", !.status = status,
                  !.returned = IF status = "ok" THEN "module" ELSE "nothing"]

\* PlayerModel.make_decision(choice)
make_decision ==
  /\ player = "built"
  /\ \E order \in Orders(DOMAIN mode_ranking) :
     \E synth \in { SynthesizeMoe(PlayerInputs, order) } :
     \E prepared \in { PreparedDecision(synth) } :
       /\ synthesized' = synth
       /\ IF prepared.status # "ok"
          THEN /\ decision' = prepared.decision
               /\ result' = Raised("make_decision", decision_method, prepared.status)
               /\ completed' = StagesOf(prepared.decision)
          ELSE \E decided \in Decide(decision_method, prepared.decision, choice) :
               \E made \in { AfterDecide(prepared.decision, decided) } :
                 /\ decision' = made.decision
                 /\ result' = MadeResult(decided, made.status)
                 /\ completed' = StagesOf(made.decision)
  /\ UNCHANGED <<modes, mode_ranking, mode_adjustments, goal_adjustments,
                 goal_overrides, player, priority_method, decision_method, edits,
                 priorities_of>>
  /\ UNCHANGED <<goalVars, choice, analysisVars>>

AssessNext ==
  \/ \E n \in OptionNames(choice) : assess_decision(StrSelection(n))
  \/ make_decision

\* A player with the one mode "explore": health has priority 1, wealth
\* priority w
ExplorerModes(w) ==
  ( "explore" :> ModeOfEngagement("explore", {"health", "wealth"},
                                  ("health" :> 1) @@ ("wealth" :> w)) )

\* the choices a decision is taken through its life cycle at: no options;
\* two options without outcomes; an option without outcomes and one with
\* two sure losses; two options with small gains, one of them with an
\* outcome of no salience
DecisionChoices ==
  { Choice("void", <<>>),
    Choice("plain", << Option("stay", <<>>), Option("go", <<>>) >>),
    Choice("risky", << Option("stay", <<>>), Option("go", <<"hurt", "lose">>) >>),
    Choice("close", << Option("stay", <<"perk">>), Option("go", <<"tip", "ghost">>) >>) }

\* A built player model and a choice; no Decision yet.
InitDecision ==
  /\ GOALS_REGISTRY = [n \in GoalNames |-> NoGoal]
  /\ allocated = 0
  /\ lastNew = NoNew
  /\ pc = [t \in Threads |-> "idle"]
  /\ call = [t \in Threads |-> NoCall]
  /\ ret = [t \in Threads |-> NoGoal]
  /\ modes = ExplorerModes(2)
  /\ mode_ranking = ("explore" :> 1)
  /\ mode_adjustments = ("explore" :> 0)
  /\ goal_adjustments = [g \in AllModeGoals(modes) |-> 0]
  /\ goal_overrides = <<>>
  /\ synthesized = SynthesizeMoe(PlayerInputs, <<"explore">>)
  /\ player = "built"
  /\ priority_method \in {softpriority, HardPriority}
  /\ decision_method = "utilizing"
  /\ edits = 0
  /\ priorities_of = [mn \in DOMAIN modes |-> mn]
  /\ choice \in DecisionChoices
  /\ decision = NoDecision
  /\ result = NoResult
  /\ completed = NoneCompleted
  /\ breakdowns = <<>>
  /\ combined = NotCombined
  /\ trace = <<>>
  /\ analysis = NotAnalyzed
  /\ roundtrip = NoRoundTrip

SpecDecision == InitDecision /\ [][DecisionNext]_vars

\* the choices a player assesses: up to MaxOptions options, each with up
\* to MaxOutcomes of these outcomes
AssessOutcomes == {"hurt", "tip", "nick", "perk"}
AssessChoices == ChoicesOver(OutcomeLists(AssessOutcomes, MaxOutcomes), MaxOptions)

\* A built, utilizing player model with one mode, and the choice it is
\* asked about.
InitAssess ==
  /\ GOALS_REGISTRY = [n \in GoalNames |-> NoGoal]
  /\ allocated = 0
  /\ lastNew = NoNew
  /\ pc = [t \in Threads |-> "idle"]
  /\ call = [t \in Threads |-> NoCall]
  /\ ret = [t \in Threads |-> NoGoal]
  /\ modes \in { ExplorerModes(w) : w \in ModePriorities }
  /\ mode_ranking = ("explore" :> 1)
  /\ mode_adjustments = ("explore" :> 0)
  /\ goal_adjustments = [g \in AllModeGoals(modes) |-> 0]
  /\ goal_overrides = <<>>
  /\ synthesized = SynthesizeMoe(PlayerInputs, <<"explore">>)
  /\ player = "built"
  /\ priority_method \in {softpriority, HardPriority}
  /\ decision_method = "utilizing"
  /\ edits = 0
  /\ priorities_of = [mn \in DOMAIN modes |-> mn]
  /\ choice \in AssessChoices
  /\ decision = NoDecision
  /\ result = NoResult
  /\ completed = NoneCompleted
  /\ breakdowns = <<>>
  /\ combined = NotCombined
  /\ trace = <<>>
  /\ analysis = NotAnalyzed
  /\ roundtrip = NoRoundTrip

SpecAssess == InitAssess /\ [][AssessNext]_vars

\* outcomes that trade the goals off against each other: a small loss of
\* health, a large loss of wealth, a small gain of health
TradeoffOutcomes == {"nick", "lose", "perk"}
TradeoffChoices == ChoicesOver(OutcomeLists(TradeoffOutcomes, MaxOutcomes), MaxOptions)

\* A built, utilizing player model with one mode, in which wealth is as
\* important as health or less, and a choice between trade-offs.
InitTradeoffs ==
  /\ GOALS_REGISTRY = [n \in GoalNames |-> NoGoal]
  /\ allocated = 0
  /\ lastNew = NoNew
  /\ pc = [t \in Threads |-> "idle"]
  /\ call = [t \in Threads |-> NoCall]
  /\ ret = [t \in Threads |-> NoGoal]
  /\ modes \in { ExplorerModes(w) : w \in ModePriorities }
  /\ mode_ranking = ("explore" :> 1)
  /\ mode_adjustments = ("explore" :> 0)
  /\ goal_adjustments = [g \in AllModeGoals(modes) |-> 0]
  /\ goal_overrides = <<>>
  /\ synthesized = SynthesizeMoe(PlayerInputs, <<"explore">>)
  /\ player = "built"
  /\ priority_method \in {softpriority, HardPriority}
  /\ decision_method = "utilizing"
  /\ edits = 0
  /\ priorities_of = [mn \in DOMAIN modes |-> mn]
  /\ choice \in TradeoffChoices
  /\ decision = NoDecision
  /\ result = NoResult
  /\ completed = NoneCompleted
  /\ breakdowns = <<>>
  /\ combined = NotCombined
  /\ trace = <<>>
  /\ analysis = NotAnalyzed
  /\ roundtrip = NoRoundTrip

SpecTradeoffs == InitTradeoffs /\ [][AssessNext]_vars

\* the per-choice results that are combined: entries for any of two
\* choices, each with a weight and the averages of one or two models
CombineChoices == {"door", "bridge"}
EntryWeights == {1, 3}
EntryAverages == { ("M" :> ROne), ("M" :> Rat(3, 5)), ("M" :> ROne) @@ ("N" :> RZero) }
Entries == { Entry(w, a) : w \in EntryWeights, a \in EntryAverages }
Breakdowns == UNION { [K -> Entries] : K \in SUBSET CombineChoices }

\* Two to MaxBreakdowns per-choice results, not yet combined.
InitCombine ==
  /\ GOALS_REGISTRY = [n \in GoalNames |-> NoGoal]
  /\ allocated = 0
  /\ lastNew = NoNew
  /\ pc = [t \in Threads |-> "idle"]
  /\ call = [t \in Threads |-> NoCall]
  /\ ret = [t \in Threads |-> NoGoal]
  /\ modes = <<>>
  /\ mode_ranking = <<>>
  /\ mode_adjustments = <<>>
  /\ goal_adjustments = <<>>
  /\ goal_overrides = <<>>
  /\ synthesized = NoSynthesis
  /\ player = "unbuilt"
  /\ priority_method = softpriority
  /\ decision_method = "utilizing"
  /\ edits = 0
  /\ priorities_of = [mn \in DOMAIN modes |-> mn]
  /\ choice = NoChoice
  /\ decision = NoDecision
  /\ result = NoResult
  /\ completed = NoneCompleted
  /\ breakdowns \in UNION { [1..n -> Breakdowns] : n \in 2..MaxBreakdowns }
  /\ combined = NotCombined
  /\ trace = <<>>
  /\ analysis = NotAnalyzed
  /\ roundtrip = NoRoundTrip

SpecCombine == InitCombine /\ [][CombineNext]_vars

\* ------------------------------------------------------------------------
\* engagement.py: add_goal, remove_goal, set_priority;  player.py: changes
\* to the inputs of the synthesis
\* ------------------------------------------------------------------------

\* number of changes made to the inputs of a player model
MaxEdits == 2

\* ModeOfEngagement.add_goal(goal, priority), goal given by its name
add_goal(moe, gn, priority) ==
  IF gn \in moe.goals
  THEN [status |-> "ValueError", moe |-> moe]
  ELSE [status |-> "ok",
        moe |-> ModeOfEngagement(moe.name, moe.goals \cup {gn},
                                 (gn :> priority) @@ moe.priorities)]

\* a function without the key k
Without(f, k) == [x \in DOMAIN f \ {k} |-> f[x]]

\* ModeOfEngagement.remove_goal(goal_name)
remove_goal(moe, gn) ==
  IF gn \notin moe.goals
  THEN [status |-> "KeyError", moe |-> moe]
  ELSE IF gn \notin DOMAIN moe.priorities
  THEN [status |-> "KeyError",
        moe |-> ModeOfEngagement(moe.name, moe.goals \ {gn}, moe.priorities)]
  ELSE [status |-> "ok",
        moe |-> ModeOfEngagement(moe.name, moe.goals \ {gn},
                                 Without(moe.priorities, gn))]

\* ModeOfEngagement.set_priority(goal_name, priority)
set_priority(moe, gn, priority) ==
  IF gn \in DOMAIN moe.priorities
  THEN [status |-> "ok", moe |-> [moe EXCEPT !.priorities[gn] = priority]]
  ELSE [status |-> "KeyError", moe |-> moe]

\* modes[mn].<op>(...): r is what the operation of the mode gave.  The
\* priorities of a mode are a dict object; the modes that hold the same
\* object see the change
EditMode(op, mn, r) ==
  /\ edits < MaxEdits
  /\ edits' = edits + 1
  /\ modes' = [m \in DOMAIN modes |->
                 IF m = mn THEN r.moe
                 ELSE IF priorities_of[m] = priorities_of[mn]
                 THEN [modes[m] EXCEPT !.priorities = r.moe.priorities]
                 ELSE modes[m]]
  /\ result' = Edited(op, r.status)
  /\ UNCHANGED <<mode_ranking, mode_adjustments, goal_adjustments, goal_overrides,
                 synthesized, player, priority_method, decision_method,
                 priorities_of>>
  /\ UNCHANGED <<choice, decision, completed>>
  /\ UNCHANGED <<goalVars, analysisVars>>

ModeAddGoal(mn, gn, priority) ==
  EditMode("add_goal", mn, add_goal(modes[mn], gn, priority))

ModeRemoveGoal(mn, gn) ==
  EditMode("remove_goal", mn, remove_goal(modes[mn], gn))

ModeSetPriority(mn, gn, priority) ==
  EditMode("set_priority", mn, set_priority(modes[mn], gn, priority))

\* player.mode_ranking[mn] = rank
SetModeRanking(mn, rank) ==
  /\ player = "built"
  /\ edits < MaxEdits
  /\ edits' = edits + 1
  /\ mode_ranking' = [mode_ranking EXCEPT ![mn] = rank]
  /\ result' = Edited("mode_ranking", "ok")
  /\ UNCHANGED <<modes, mode_adjustments, goal_adjustments, goal_overrides,
                 synthesized, player, priority_method, decision_method,
                 priorities_of>>
  /\ UNCHANGED <<choice, decision, completed>>
  /\ UNCHANGED <<goalVars, analysisVars>>

\* player.mode_adjustments[mn] = adjustment
SetModeAdjustment(mn, adjustment) ==
  /\ player = "built"
  /\ edits < MaxEdits
  /\ edits' = edits + 1
  /\ mode_adjustments' = [mode_adjustments EXCEPT ![mn] = adjustment]
  /\ result' = Edited("mode_adjustments", "ok")
  /\ UNCHANGED <<modes, mode_ranking, goal_adjustments, goal_overrides,
                 synthesized, player, priority_method, decision_method,
                 priorities_of>>
  /\ UNCHANGED <<choice, decision, completed>>
  /\ UNCHANGED <<goalVars, analysisVars>>

\* player.goal_adjustments[gn] = adjustment
SetGoalAdjustment(gn, adjustment) ==
  /\ player = "built"
  /\ edits < MaxEdits
  /\ edits' = edits + 1
  /\ goal_adjustments' = (gn :> adjustment) @@ goal_adjustments
  /\ result' = Edited("goal_adjustments", "ok")
  /\ UNCHANGED <<modes, mode_ranking, mode_adjustments, goal_overrides,
                 synthesized, player, priority_method, decision_method,
                 priorities_of>>
  /\ UNCHANGED <<choice, decision, completed>>
  /\ UNCHANGED <<goalVars, analysisVars>>

\* player.goal_overrides[gn] = priority
SetGoalOverride(gn, priority) ==
  /\ player = "built"
  /\ edits < MaxEdits
  /\ edits' = edits + 1
  /\ goal_overrides' = (gn :> priority) @@ goal_overrides
  /\ result' = Edited("goal_overrides", "ok")
  /\ UNCHANGED <<modes, mode_ranking, mode_adjustments, goal_adjustments,
                 synthesized, player, priority_method, decision_method,
                 priorities_of>>
  /\ UNCHANGED <<choice, decision, completed>>
  /\ UNCHANGED <<goalVars, analysisVars>>

\* del player.goal_overrides[gn]
DelGoalOverride(gn) ==
  /\ player = "built"
  /\ edits < MaxEdits
  /\ gn \in DOMAIN goal_overrides
  /\ edits' = edits + 1
  /\ goal_overrides' = Without(goal_overrides, gn)
  /\ result' = Edited("goal_overrides", "ok")
  /\ UNCHANGED <<modes, mode_ranking, mode_adjustments, goal_adjustments,
                 synthesized, player, priority_method, decision_method,
                 priorities_of>>
  /\ UNCHANGED <<choice, decision, completed>>
  /\ UNCHANGED <<goalVars, analysisVars>>

EditsNext ==
  \/ \E mn \in DOMAIN modes, gn \in PlayerGoals, priority \in ModePriorities :
       ModeAddGoal(mn, gn, priority)
  \/ \E mn \in DOMAIN modes, gn \in PlayerGoals : ModeRemoveGoal(mn, gn)
  \/ \E mn \in DOMAIN modes, gn \in PlayerGoals, priority \in ModePriorities :
       ModeSetPriority(mn, gn, priority)
  \/ \E mn \in DOMAIN modes, rank \in ModeRanks : SetModeRanking(mn, rank)
  \/ \E mn \in DOMAIN modes, adjustment \in ModeAdjustments :
       SetModeAdjustment(mn, adjustment)
  \/ \E gn \in PlayerGoals, adjustment \in GoalAdjustments :
       SetGoalAdjustment(gn, adjustment)
  \/ \E gn \in PlayerGoals, priority \in GoalOverrides : SetGoalOverride(gn, priority)
  \/ \E gn \in PlayerGoals : DelGoalOverride(gn)
  \/ combined_mode_of_engagement
  \/ \E n \in OptionNames(choice) : assess_decision(StrSelection(n))
  \/ make_decision

\* A built player model with two modes of one goal each, and a choice.
InitEdits ==
  /\ GOALS_REGISTRY = [n \in GoalNames |-> NoGoal]
  /\ allocated = 0
  /\ lastNew = NoNew
  /\ pc = [t \in Threads |-> "idle"]
  /\ call = [t \in Threads |-> NoCall]
  /\ ret = [t \in Threads |-> NoGoal]
  /\ modes = [mn \in ModeNames |->
                IF mn = ModeNamePool[1]
                THEN ModeOfEngagement(mn, {"health"}, ("health" :> 1))
                ELSE ModeOfEngagement(mn, {"wealth"}, ("wealth" :> 1))]
  /\ mode_ranking = [mn \in ModeNames |-> IF mn = ModeNamePool[1] THEN 1 ELSE 2]
  /\ mode_adjustments = [mn \in ModeNames |-> 0]
  /\ goal_adjustments = [g \in AllModeGoals(modes) |-> 0]
  /\ goal_overrides = <<>>
  /\ \E order \in Orders(DOMAIN mode_ranking) :
       synthesized = SynthesizeMoe(PlayerInputs, order)
  /\ player = "built"
  /\ priority_method \in {softpriority, HardPriority}
  /\ decision_method = "utilizing"
  /\ edits = 0
  /\ priorities_of = [mn \in DOMAIN modes |-> mn]
  /\ choice \in DecisionChoices \ {Choice("void", <<>>)}
  /\ decision = NoDecision
  /\ result = NoResult
  /\ completed = NoneCompleted
  /\ breakdowns = <<>>
  /\ combined = NotCombined
  /\ trace = <<>>
  /\ analysis = NotAnalyzed
  /\ roundtrip = NoRoundTrip

SpecEdits == InitEdits /\ [][EditsNext]_vars

\* ------------------------------------------------------------------------
\* engagement.py: modes of engagement on their own
\* ------------------------------------------------------------------------

\* the priorities a mode can be constructed with: any goals, also ones the
\* mode does not get
PriorityMaps == UNION { [G -> ModePriorities] : G \in SUBSET PlayerGoals }

\* the construction of the mode name with the dict object owned by owner,
\* whose contents are priorities, gave made
Constructed(name, owner, made) ==
  /\ result' = Edited("ModeOfEngagement", made.status)
  /\ IF made.status # "ok"
     THEN UNCHANGED <<modes, priorities_of>>
     ELSE /\ priorities_of' = (name :> owner) @@ priorities_of
          /\ modes' = [m \in DOMAIN modes \cup {name} |->
                         IF m = name THEN made.moe
                         ELSE IF priorities_of[m] = owner
                         THEN [modes[m] EXCEPT !.priorities = made.dict]
                         ELSE modes[m]]
  /\ UNCHANGED <<mode_ranking, mode_adjustments, goal_adjustments, goal_overrides,
                 synthesized, player, priority_method, decision_method, edits>>
  /\ UNCHANGED <<choice, decision, completed>>
  /\ UNCHANGED <<goalVars, analysisVars>>

\* ModeOfEngagement(name, goal_list, priorities) with a dict made for the call
ModeNew(name, goal_list, priorities) ==
  /\ name \notin DOMAIN modes
  /\ Constructed(name, name, ModeOfEngagementNew(name, goal_list, priorities))

\* ModeOfEngagement(name, goal_list, p) where p is the priorities dict of
\* a mode constructed before: line 186 keeps p itself unless it is empty
ModeNewSameDict(name, goal_list, other) ==
  /\ name \notin DOMAIN modes
  /\ other \in DOMAIN modes
  /\ Constructed(name,
                 IF modes[other].priorities = <<>> THEN name ELSE priorities_of[other],
                 ModeOfEngagementNew(name, goal_list, modes[other].priorities))

ModesNext ==
  \/ \E name \in ModeNames, goal_list \in SUBSET PlayerGoals, priorities \in PriorityMaps :
       ModeNew(name, goal_list, priorities)
  \/ \E name \in ModeNames, goal_list \in SUBSET PlayerGoals, other \in DOMAIN modes :
       ModeNewSameDict(name, goal_list, other)
  \/ \E mn \in DOMAIN modes, gn \in PlayerGoals, priority \in ModePriorities :
       ModeAddGoal(mn, gn, priority)
  \/ \E mn \in DOMAIN modes, gn \in PlayerGoals : ModeRemoveGoal(mn, gn)
  \/ \E mn \in DOMAIN modes, gn \in PlayerGoals, priority \in ModePriorities :
       ModeSetPriority(mn, gn, priority)

\* No mode has been constructed yet.
InitModes ==
  /\ GOALS_REGISTRY = [n \in GoalNames |-> NoGoal]
  /\ allocated = 0
  /\ lastNew = NoNew
  /\ pc = [t \in Threads |-> "idle"]
  /\ call = [t \in Threads |-> NoCall]
  /\ ret = [t \in Threads |-> NoGoal]
  /\ modes = <<>>
  /\ mode_ranking = <<>>
  /\ mode_adjustments = <<>>
  /\ goal_adjustments = <<>>
  /\ goal_overrides = <<>>
  /\ synthesized = NoSynthesis
  /\ player = "unbuilt"
  /\ priority_method = softpriority
  /\ decision_method = "utilizing"
  /\ edits = 0
  /\ priorities_of = <<>>
  /\ choice = NoChoice
  /\ decision = NoDecision
  /\ result = NoResult
  /\ completed = NoneCompleted
  /\ breakdowns = <<>>
  /\ combined = NotCombined
  /\ trace = <<>>
  /\ analysis = NotAnalyzed
  /\ roundtrip = NoRoundTrip

SpecModes == InitModes /\ [][ModesNext]_vars

\* ------------------------------------------------------------------------
\* engagement.py, player.py: construction from arguments whose keys need
\* not match
\* ------------------------------------------------------------------------

\* the dicts that give some of the keys the value
KeyedMaps(keys, value) == UNION { [K -> {value}] : K \in SUBSET keys }

KeysNext ==
  \/ \E name \in ModeNames, goal_list \in SUBSET PlayerGoals \ {{}},
        priorities \in PriorityMaps :
       ModeNew(name, goal_list, priorities)
  \/ PlayerModelInit

\* The arguments a player model will be constructed with: a rank and an
\* adjustment for some mode names, an adjustment and an override for some
\* goal names.  The modes are constructed afterwards, so that an argument
\* can name a mode or a goal the player does not have and can miss one it has.
InitKeys ==
  /\ GOALS_REGISTRY = [n \in GoalNames |-> NoGoal]
  /\ allocated = 0
  /\ lastNew = NoNew
  /\ pc = [t \in Threads |-> "idle"]
  /\ call = [t \in Threads |-> NoCall]
  /\ ret = [t \in Threads |-> NoGoal]
  /\ modes = <<>>
  /\ mode_ranking \in KeyedMaps(ModeNames, 1)
  /\ mode_adjustments \in KeyedMaps(ModeNames, -3)
  /\ goal_adjustments \in KeyedMaps(PlayerGoals, -1)
  /\ goal_overrides \in KeyedMaps(PlayerGoals, 1)
  /\ synthesized = NoSynthesis
  /\ player = "unbuilt"
  /\ priority_method = softpriority
  /\ decision_method = "utilizing"
  /\ edits = 0
  /\ priorities_of = <<>>
  /\ choice = NoChoice
  /\ decision = NoDecision
  /\ result = NoResult
  /\ completed = NoneCompleted
  /\ breakdowns = <<>>
  /\ combined = NotCombined
  /\ trace = <<>>
  /\ analysis = NotAnalyzed
  /\ roundtrip = NoRoundTrip

SpecKeys == InitKeys /\ [][KeysNext]_vars

\* ------------------------------------------------------------------------
\* base_types.py: certainty, valence and visibility and their named values
\* ------------------------------------------------------------------------

\* the values probed between -1 and 1 are the multiples of 1/Steps
Steps == 20

\* lines 58-112: the named certainties, under the names that
\* super_class_property gives them, and their probabilities
CertaintyNamed ==
  ("impossible" :> RZero) @@ ("inconceivable" :> Rat(1, 1000))
  @@ ("unlikely" :> Rat(2, 10)) @@ ("even" :> Rat(5, 10)) @@ ("likely" :> Rat(8, 10))
  @@ ("certain" :> Rat(999, 1000)) @@ ("inviolable" :> ROne)

\* lines 169-223: the named valences and their values
ValenceNamed ==
  ("awful" :> Rat(-95, 100)) @@ ("bad" :> Rat(-6, 10)) @@ ("unpleasant" :> Rat(-2, 10))
  @@ ("neutral" :> RZero) @@ ("okay" :> Rat(2, 10)) @@ ("good" :> Rat(6, 10))
  @@ ("wonderful" :> Rat(95, 100))

\* lines 280-310: the named visibilities and their values
VisibilityNamed ==
  ("invisible" :> RZero) @@ ("hinted" :> Rat(3, 10)) @@ ("implicit" :> Rat(7, 10))
  @@ ("explicit" :> ROne)

Abstracted(name) == [status |-> "ok", name |-> name]
NoAbstract == [status |-> "ValueError", name |-> ""]

\* Certainty.abstract, lines 42-56, for a probability p
Certainty_abstract(p) ==
  IF RLe(RZero, p) /\ RLt(p, Rat(5, 100)) THEN Abstracted("impossible")
  ELSE IF RLe(Rat(5, 100), p) /\ RLt(p, Rat(45, 100)) THEN Abstracted("unlikely")
  ELSE IF RLe(Rat(45, 100), p) /\ RLe(p, Rat(55, 100)) THEN Abstracted("even")
  ELSE IF RLt(Rat(55, 100), p) /\ RLe(p, Rat(95, 100)) THEN Abstracted("likely")
  ELSE IF RLt(Rat(95, 100), p) /\ RLe(p, ROne) THEN Abstracted("certain")
  ELSE NoAbstract

\* Valence.abstract, lines 149-167, for a value v
Valence_abstract(v) ==
  IF RLe(RInt(-1), v) /\ RLt(v, Rat(-8, 10)) THEN Abstracted("awful")
  ELSE IF RLe(Rat(-8, 10), v) /\ RLt(v, Rat(-35, 100)) THEN Abstracted("bad")
  ELSE IF RLe(Rat(-35, 100), v) /\ RLt(v, Rat(-5, 100)) THEN Abstracted("unpleasant")
  ELSE IF RLe(Rat(-5, 100), v) /\ RLe(v, Rat(5, 100)) THEN Abstracted("neutral")
  ELSE IF RLt(Rat(5, 100), v) /\ RLe(v, Rat(35, 100)) THEN Abstracted("okay")
  ELSE IF RLt(Rat(35, 100), v) /\ RLe(v, Rat(8, 10)) THEN Abstracted("good")
  ELSE IF RLt(Rat(8, 10), v) /\ RLe(v, ROne) THEN Abstracted("wonderful")
  ELSE NoAbstract

\* Visibility.abstract, lines 266-278, for a value v
Visibility_abstract(v) ==
  IF RLe(RZero, v) /\ RLt(v, Rat(5, 100)) THEN Abstracted("invisible")
  ELSE IF RLe(Rat(5, 100), v) /\ RLt(v, Rat(5, 10)) THEN Abstracted("hinted")
  ELSE IF RLe(Rat(5, 10), v) /\ RLt(v, Rat(9, 10)) THEN Abstracted("implicit")
  ELSE IF RLe(Rat(9, 10), v) /\ RLe(v, ROne) THEN Abstracted("explicit")
  ELSE NoAbstract

BaseTypes == {"Certainty", "Valence", "Visibility"}

\* the named values of a type
Named(type) ==
  CASE type = "Certainty" -> CertaintyNamed
    [] type = "Valence" -> ValenceNamed
    [] type = "Visibility" -> VisibilityNamed

\* the least value of a type: lines 16, 123 and 235 (the greatest is 1)
Least(type) == IF type = "Valence" THEN RInt(-1) ELSE RZero

\* the values where one range of abstract ends and the next begins
Thresholds(type) ==
  CASE type = "Certainty" -> { Rat(5, 100), Rat(45, 100), Rat(55, 100), Rat(95, 100) }
    [] type = "Valence" -> { Rat(-8, 10), Rat(-35, 100), Rat(-5, 100), Rat(5, 100),
                              Rat(35, 100), Rat(8, 10) }
    [] type = "Visibility" -> { Rat(5, 100), Rat(5, 10), Rat(9, 10) }

\* <type>.abstract(x)
abstract(type, x) ==
  CASE type = "Certainty" -> Certainty_abstract(x)
    [] type = "Valence" -> Valence_abstract(x)
    [] type = "Visibility" -> Visibility_abstract(x)

\* the numbers abstract is called with: a grid over [-1, 1], every named
\* value, every threshold, and the 0.78 of test.py line 29
ProbedValues ==
  { Rat(k, Steps) : k \in (0 - Steps)..Steps }
  \cup UNION { { Named(type)[name] : name \in DOMAIN Named(type) } \cup Thresholds(type) :
                 type \in BaseTypes }
  \cup { Rat(78, 100) }

\* <type>.abstract(x) for the number x that result.value holds
Abstract(type) ==
  /\ result.op = "none"
  /\ \E r \in { abstract(type, result.value[1]) } :
       result' = [result EXCEPT !.op = "abstract", !.method = type,
                                !.status = r.status, !.option = r.name,
                                !.returned = IF r.status = "ok" THEN "named value"
                                             ELSE "nothing"]
  /\ UNCHANGED <<choice, decision, completed>>
  /\ UNCHANGED <<goalVars, playerVars, analysisVars>>

TypesNext == \E type \in BaseTypes : Abstract(type)

\* A number that abstract is about to be called with.
InitTypes ==
  /\ GOALS_REGISTRY = [n \in GoalNames |-> NoGoal]
  /\ allocated = 0
  /\ lastNew = NoNew
  /\ pc = [t \in Threads |-> "idle"]
  /\ call = [t \in Threads |-> NoCall]
  /\ ret = [t \in Threads |-> NoGoal]
  /\ modes = <<>>
  /\ mode_ranking = <<>>
  /\ mode_adjustments = <<>>
  /\ goal_adjustments = <<>>
  /\ goal_overrides = <<>>
  /\ synthesized = NoSynthesis
  /\ player = "unbuilt"
  /\ priority_method = softpriority
  /\ decision_method = "utilizing"
  /\ edits = 0
  /\ priorities_of = <<>>
  /\ choice = NoChoice
  /\ decision = NoDecision
  /\ \E x \in ProbedValues : result = [NoResult EXCEPT !.value = Some(x)]
  /\ completed = NoneCompleted
  /\ breakdowns = <<>>
  /\ combined = NotCombined
  /\ trace = <<>>
  /\ analysis = NotAnalyzed
  /\ roundtrip = NoRoundTrip

SpecTypes == InitTypes /\ [][TypesNext]_vars

\* ------------------------------------------------------------------------
\* utils.py, choice.py: the names of the outcomes of an option and of the
\* options of a choice
\* ------------------------------------------------------------------------

\* utils.collision(collection): the first item that occurs again later in
\* the list, or None
collision(check) ==
  IF \E i \in 1..Len(check), j \in 1..Len(check) : i < j /\ check[i] = check[j]
  THEN Some(check[CHOOSE i \in 1..Len(check) :
                    /\ \E j \in (i + 1)..Len(check) : check[i] = check[j]
                    /\ \A h \in 1..(i - 1) :
                         ~ \E j \in (h + 1)..Len(check) : check[h] = check[j]])
  ELSE None

\* utils.check_names, for the names of the items: line 67 tests the
\* truth value of the colliding name, and the empty string is false
check_names(names) ==
  LET nc == collision(names)
  IN  IF nc # None /\ nc[1] # "" THEN "ValueError" ELSE "ok"

RECURSIVE NamedDict(_)
\* { o.name: o for o in items }: one entry per name, at the place of the
\* first item of that name and holding the last one
NamedDict(items) ==
  IF items = <<>> THEN <<>>
  ELSE LET last == items[Len(items)]
           before == NamedDict(SubSeq(items, 1, Len(items) - 1))
       IN  IF \E i \in 1..Len(before) : before[i].name = last.name
           THEN [i \in 1..Len(before) |->
                   IF before[i].name = last.name THEN last ELSE before[i]]
           ELSE Append(before, last)

\* the names of a list of outcomes, options or names
NamesOf(items) == [i \in 1..Len(items) |-> items[i].name]

\* an outcome of an option, which the model holds by its name
OutcomeOfName(name) == [name |-> name]

\* Option.__init__(name, outcomes), the outcomes given by name
OptionInit(name, outcomes) ==
  [status |-> check_names(outcomes),
   option |-> Option(name,
                     NamesOf(NamedDict([i \in 1..Len(outcomes) |->
                                          OutcomeOfName(outcomes[i])])))]

\* Choice.__init__(name, options)
ChoiceInit(name, options) ==
  [status |-> check_names(NamesOf(options)),
   choice |-> Choice(name, NamedDict(options))]

\* Option.add_outcome(outcome), the outcome given by name
add_outcome(option, outcome) ==
  IF outcome \in Range(option.outcomes)
  THEN [status |-> "KeyError", option |-> option]
  ELSE [status |-> "ok", option |-> [option EXCEPT !.outcomes = Append(@, outcome)]]

\* Choice.add_option(option)
add_option(ch, option) ==
  IF option.name \in OptionNames(ch)
  THEN [status |-> "KeyError", choice |-> ch]
  ELSE [status |-> "ok", choice |-> [ch EXCEPT !.options = Append(@, option)]]

\* the names options and outcomes are given, the empty name among them
NamePool == {"", "stay", "go"}
OutcomeNamePool == {"", "hurt"}

\* the lists of at most n items of a set
ListsOf(items, n) == UNION { [1..m -> items] : m \in 0..n }

\* what a constructor or an add returned or raised; candidates holds the
\* names the constructor was given, or the names present before the add,
\* and option the name added
NamesResult(op, status, given, name) ==
  [Edited(op, status) EXCEPT !.candidates = given, !.option = name]

\* Choice("crossroads", options) for options without outcomes
NewChoice(options) ==
  /\ choice = NoChoice
  /\ \E made \in { ChoiceInit("crossroads", options) } :
       /\ result' = NamesResult("Choice", made.status, NamesOf(options), "")
       /\ choice' = IF made.status = "ok" THEN made.choice ELSE choice
  /\ UNCHANGED <<decision, completed>>
  /\ UNCHANGED <<goalVars, playerVars, analysisVars>>

\* choice.add_option(Option(name, outcomes))
AddNewOption(name, outcomes) ==
  /\ choice # NoChoice
  /\ edits < MaxEdits
  /\ edits' = edits + 1
  /\ \E made \in { OptionInit(name, outcomes) } :
       IF made.status # "ok"
       THEN /\ result' = NamesResult("Option", made.status, outcomes, "")
            /\ UNCHANGED choice
       ELSE \E added \in { add_option(choice, made.option) } :
              /\ result' = NamesResult("add_option", added.status,
                                       NamesOf(choice.options), name)
              /\ choice' = added.choice
  /\ UNCHANGED <<modes, mode_ranking, mode_adjustments, goal_adjustments, goal_overrides,
                 synthesized, player, priority_method, decision_method, priorities_of>>
  /\ UNCHANGED <<decision, completed>>
  /\ UNCHANGED <<goalVars, analysisVars>>

\* choice.options[name].add_outcome(outcome)
AddOutcome(i, outcome) ==
  /\ edits < MaxEdits
  /\ edits' = edits + 1
  /\ \E added \in { add_outcome(choice.options[i], outcome) } :
       /\ result' = NamesResult("add_outcome", added.status,
                                choice.options[i].outcomes, outcome)
       /\ choice' = [choice EXCEPT !.options[i] = added.option]
  /\ UNCHANGED <<modes, mode_ranking, mode_adjustments, goal_adjustments, goal_overrides,
                 synthesized, player, priority_method, decision_method, priorities_of>>
  /\ UNCHANGED <<decision, completed>>
  /\ UNCHANGED <<goalVars, analysisVars>>

NamesNext ==
  \/ \E options \in ListsOf({ Option(n, <<>>) : n \in NamePool }, MaxOptions) :
       NewChoice(options)
  \/ \E name \in NamePool, outcomes \in ListsOf(OutcomeNamePool, MaxOutcomes) :
       AddNewOption(name, outcomes)
  \/ \E i \in 1..Len(choice.options), outcome \in OutcomeNamePool : AddOutcome(i, outcome)

\* No choice has been constructed yet.
InitNames ==
  /\ GOALS_REGISTRY = [n \in GoalNames |-> NoGoal]
  /\ allocated = 0
  /\ lastNew = NoNew
  /\ pc = [t \in Threads |-> "idle"]
  /\ call = [t \in Threads |-> NoCall]
  /\ ret = [t \in Threads |-> NoGoal]
  /\ modes = <<>>
  /\ mode_ranking = <<>>
  /\ mode_adjustments = <<>>
  /\ goal_adjustments = <<>>
  /\ goal_overrides = <<>>
  /\ synthesized = NoSynthesis
  /\ player = "unbuilt"
  /\ priority_method = softpriority
  /\ decision_method = "utilizing"
  /\ edits = 0
  /\ priorities_of = <<>>
  /\ choice = NoChoice
  /\ decision = NoDecision
  /\ result = NoResult
  /\ completed = NoneCompleted
  /\ breakdowns = <<>>
  /\ combined = NotCombined
  /\ trace = <<>>
  /\ analysis = NotAnalyzed
  /\ roundtrip = NoRoundTrip

SpecNames == InitNames /\ [][NamesNext]_vars

\* ------------------------------------------------------------------------
\* choice.py: sampling the outcomes of an option
\* ------------------------------------------------------------------------

\* Option.sample_outcomes (lines 352-368): the loop draws r and compares it
\* with out.probability for the first outcome of the option.  An Outcome
\* holds its likelihoods in apparent_likelihood and actual_likelihood and
\* has no attribute probability, so the comparison raises and nothing is
\* returned; an option without outcomes gives the empty sample.
sample_outcomes(option) ==
  IF option.outcomes = <<>>
  THEN [status |-> "ok", results |-> <<>>]
  ELSE [status |-> "AttributeError", results |-> <<>>]

\* the outcomes that are sampled: a sure one whose apparent likelihood is
\* lower, an even one, two sure ones, one that cannot happen
SampledOutcomes == {"tip", "nick", "perk", "hurt", "miss"}

\* choice.options[name].sample_outcomes(), for the i-th option; option
\* holds its name and candidates the names of the sample
SampleOutcomes(i) ==
  /\ \E sampled \in { sample_outcomes(choice.options[i]) } :
       result' = [NoResult EXCEPT !.op = "sample_outcomes",
                                  !.status = sampled.status,
                                  !.returned = IF sampled.status = "ok"
                                               THEN "sample" ELSE "nothing",
                                  !.option = choice.options[i].name,
                                  !.candidates = sampled.results]
  /\ UNCHANGED <<choice, decision, completed>>
  /\ UNCHANGED <<goalVars, playerVars, analysisVars>>

SamplingNext ==
  \E i \in 1..Len(choice.options) : SampleOutcomes(i)

\* A choice of up to MaxOptions options, each with up to MaxOutcomes
\* outcomes; nothing has been sampled.
InitSampling ==
  /\ GOALS_REGISTRY = [n \in GoalNames |-> NoGoal]
  /\ allocated = 0
  /\ lastNew = NoNew
  /\ pc = [t \in Threads |-> "idle"]
  /\ call = [t \in Threads |-> NoCall]
  /\ ret = [t \in Threads |-> NoGoal]
  /\ modes = <<>>
  /\ mode_ranking = <<>>
  /\ mode_adjustments = <<>>
  /\ goal_adjustments = <<>>
  /\ goal_overrides = <<>>
  /\ synthesized = NoSynthesis
  /\ player = "unbuilt"
  /\ priority_method = softpriority
  /\ decision_method = "utilizing"
  /\ edits = 0
  /\ priorities_of = <<>>
  /\ choice \in ChoicesOver(OutcomeLists(SampledOutcomes, MaxOutcomes), MaxOptions)
  /\ decision = NoDecision
  /\ result = NoResult
  /\ completed = NoneCompleted
  /\ breakdowns = <<>>
  /\ combined = NotCombined
  /\ trace = <<>>
  /\ analysis = NotAnalyzed
  /\ roundtrip = NoRoundTrip

SpecSampling == InitSampling /\ [][SamplingNext]_vars

\* ------------------------------------------------------------------------
\* analyze_traces.py: analyze_trace
\* ------------------------------------------------------------------------

\* the number of picks of a trace
MaxTrace == 3

\* a PlayerModel as analyze_trace uses it: its name, the fields synthesis
\* reads, and its methods
PlayerModel(name, inputs, pm, dm) ==
  [name |-> name, inputs |-> inputs, priority_method |-> pm, decision_method |-> dm]

\* the fields of a player with the one mode "explore", wealth at priority w
ExplorerInputs(w) ==
  [modes |-> ExplorerModes(w), mode_ranking |-> ("explore" :> 1),
   mode_adjustments |-> ("explore" :> 0),
   goal_adjustments |-> [g \in AllModeGoals(ExplorerModes(w)) |-> 0],
   goal_overrides |-> <<>>]

\* the models a trace is compared with
TraceModels ==
  << PlayerModel("careful", ExplorerInputs(1), softpriority, "utilizing"),
     PlayerModel("bold", ExplorerInputs(2), HardPriority, "utilizing") >>

\* the choices of the trace, by name (lines 96-99)
TraceChoices ==
  ( "door" :> Choice("door", << Option("stay", <<>>), Option("go", <<"hurt">>) >>) )
  @@ ( "bridge" :> Choice("bridge", << Option("stay", <<"perk">>),
                                      Option("go", <<"tip", "nick">>) >>) )

\* the picks a trace is made of
Picks == { <<c, o>> : c \in DOMAIN TraceChoices, o \in {"stay", "go"} }

\* a dict key that is a str, and one that is a PlayerModel object
NameKey(name) == [type |-> "str", name |-> name]
ModelKey(pm) == [type |-> "PlayerModel", name |-> pm.name]

\* pm.assess_decision(choice, option) for the player model pm (player.py
\* lines 467-481)
AssessDecision(pm, ch, option) ==
  LET synth == SynthesizeMoe(pm.inputs,
                             CHOOSE o \in Orders(DOMAIN pm.inputs.mode_ranking) : TRUE)
      prepared == IF synth.status # "ok"
                  THEN [status |-> synth.status, decision |-> NoDecision]
                  ELSE add_prospective_impressions(DecisionNew(ch, None, None).decision,
                                                   pm.priority_method, synth.moe, ch)
      selected == IF prepared.status # "ok" THEN prepared
                  ELSE select_option(prepared.decision, ch, StrSelection(option))
  IN  IF selected.status # "ok"
      THEN Raised("assess_decision", pm.decision_method, selected.status)
      ELSE [Consistency(pm.decision_method, selected.decision)
              EXCEPT !.op = "assess_decision"]

RECURSIVE RSum(_)
\* sum(values)
RSum(values) ==
  IF values = <<>> THEN RZero ELSE RAdd(Head(values), RSum(Tail(values)))

\* lines 100-110: the agreement of every pick, per model name; a choice
\* name that is not among the choices raises KeyError
Agreements(models, choices, picks) ==
  [i \in 1..Len(picks) |->
     [k \in 1..Len(models) |->
        IF picks[i][1] \notin DOMAIN choices
        THEN Raised("assess_decision", "", "KeyError")
        ELSE AssessDecision(models[k], choices[picks[i][1]], picks[i][2])]]

\* analyze_trace(models, choices, trace), lines 87-136.  The trajectories
\* and the averages are keyed by pm.name; the inner dict of per_choice is
\* keyed by pm, the PlayerModel itself (line 127).  The averages divide
\* by the length of the trace.  agreements are the results of lines 100-110.
analyze_trace(models, picks, agreements) ==
  LET raised == { <<i, k>> \in (1..Len(picks)) \X (1..Len(models)) :
                    agreements[i][k].status # "ok" }
      first == CHOOSE ik \in raised :
                 \A jl \in raised : ik[1] < jl[1] \/ (ik[1] = jl[1] /\ ik[2] <= jl[2])
      failed(status) == [NotAnalyzed EXCEPT !.status = status]
      of(k) == [i \in 1..Len(picks) |-> agreements[i][k].value[1]]
      at(cname) == SelectSeq([i \in 1..Len(picks) |-> i],
                             LAMBDA i : picks[i][1] = cname)
  IN  IF raised # {} THEN failed(agreements[first[1]][first[2]].status)
      ELSE IF \E i \in 1..Len(picks), k \in 1..Len(models) :
                agreements[i][k].returned # "number"
      THEN failed("TypeError")
      ELSE IF picks = <<>> /\ models # <<>> THEN failed("ZeroDivisionError")
      ELSE [status |-> "ok",
            averages |-> [key \in { NameKey(models[k].name) : k \in 1..Len(models) } |->
                            LET k == CHOOSE j \in 1..Len(models) : models[j].name = key.name
                            IN  RDiv(RSum(of(k)), RInt(Len(picks)))],
            trajectories |-> [key \in { NameKey(models[k].name) : k \in 1..Len(models) } |->
                                of(CHOOSE j \in 1..Len(models) : models[j].name = key.name)],
            per_choice |->
              [cname \in { picks[i][1] : i \in 1..Len(picks) } |->
                 Entry(Len(at(cname)),
                       [key \in { ModelKey(models[k]) : k \in 1..Len(models) } |->
                          LET k == CHOOSE j \in 1..Len(models) : models[j].name = key.name
                          IN  RDiv(RSum([n \in 1..Len(at(cname)) |->
                                           agreements[at(cname)[n]][k].value[1]]),
                                   RInt(Len(at(cname))))])]]

\* analyze_trace(models, choices, trace), once
AnalyzeTrace ==
  /\ analysis.status = "none"
  /\ \E agreements \in { Agreements(TraceModels, TraceChoices, trace) } :
       analysis' = analyze_trace(TraceModels, trace, agreements)
  /\ UNCHANGED <<breakdowns, combined, trace, roundtrip>>
  /\ UNCHANGED <<goalVars, playerVars, decisionVars>>

TraceNext == AnalyzeTrace

\* A trace of up to MaxTrace picks at the choices, not yet analysed.
InitTrace ==
  /\ GOALS_REGISTRY = [n \in GoalNames |-> NoGoal]
  /\ allocated = 0
  /\ lastNew = NoNew
  /\ pc = [t \in Threads |-> "idle"]
  /\ call = [t \in Threads |-> NoCall]
  /\ ret = [t \in Threads |-> NoGoal]
  /\ modes = <<>>
  /\ mode_ranking = <<>>
  /\ mode_adjustments = <<>>
  /\ goal_adjustments = <<>>
  /\ goal_overrides = <<>>
  /\ synthesized = NoSynthesis
  /\ player = "unbuilt"
  /\ priority_method = softpriority
  /\ decision_method = "utilizing"
  /\ edits = 0
  /\ priorities_of = <<>>
  /\ choice = NoChoice
  /\ decision = NoDecision
  /\ result = NoResult
  /\ completed = NoneCompleted
  /\ breakdowns = <<>>
  /\ combined = NotCombined
  /\ trace \in UNION { [1..n -> Picks] : n \in 0..MaxTrace }
  /\ analysis = NotAnalyzed
  /\ roundtrip = NoRoundTrip

SpecTrace == InitTrace /\ [][TraceNext]_vars

\* ------------------------------------------------------------------------
\* decision.py: the selected option of a Decision while its choice changes
\* ------------------------------------------------------------------------

\* Choice.remove_option(option_name)
remove_option(ch, name) ==
  IF name \notin OptionNames(ch)
  THEN [status |-> "KeyError", choice |-> ch]
  ELSE [status |-> "ok",
        choice |-> [ch EXCEPT !.options = SelectSeq(@, LAMBDA o : o.name # name)]]

\* choice.remove_option(name)
RemoveOption(name) ==
  /\ edits < MaxEdits
  /\ edits' = edits + 1
  /\ \E removed \in { remove_option(choice, name) } :
       /\ result' = NamesResult("remove_option", removed.status,
                                NamesOf(choice.options), name)
       /\ choice' = removed.choice
  /\ UNCHANGED <<modes, mode_ranking, mode_adjustments, goal_adjustments, goal_overrides,
                 synthesized, player, priority_method, decision_method, priorities_of>>
  /\ UNCHANGED <<decision, completed>>
  /\ UNCHANGED <<goalVars, analysisVars>>

\* decision.Decision(choice, option) for an Option object: lines 467-469
\* look up a str only, an Option is kept as it is given
DecisionOfOption(option) ==
  /\ player = "built"
  /\ ~decision.exists
  /\ decision' = [NoDecision EXCEPT !.exists = TRUE, !.option = Some(option.name)]
  /\ result' = ReturnedNone("Decision", "")
  /\ UNCHANGED <<choice, completed>>
  /\ UNCHANGED <<goalVars, playerVars, analysisVars>>

\* an Option that is in none of the choices, and a name none of their
\* options has
ForeignOption == Option("elsewhere", <<>>)
UnknownName == "nowhere"

\* the selections tried: every option of the choice by name and as an
\* object, the unknown name, the foreign Option
Selections(ch) ==
  { StrSelection(n) : n \in OptionNames(ch) \cup {UnknownName} }
  \cup { OptionSelection(o) : o \in Range(ch.options) \cup {ForeignOption} }

SelectNext ==
  \/ \E option \in {None} \cup { Some(n) : n \in OptionNames(choice) } :
       Decision(option, None)
  \/ \E o \in Range(choice.options) \cup {ForeignOption} : DecisionOfOption(o)
  \/ AddProspectiveImpressions
  \/ \E selection \in Selections(choice) : SelectOption(selection)
  \/ \E name \in {"wait", "go"} : AddNewOption(name, <<>>)
  \/ \E name \in {"wait", "go"} : RemoveOption(name)
  \/ MethodConsistency("utilizing")

\* a built player model, a choice and no Decision yet, as for the life
\* cycle of a Decision
SpecSelect == InitDecision /\ [][SelectNext]_vars

\* ------------------------------------------------------------------------
\* packable.py and the _pack_ / _unpack_ methods
\* ------------------------------------------------------------------------

\* a plain scalar: the name of a named value (a str) or a number
PlainName(name) == [type |-> "str", name |-> name, number |-> RZero]
PlainNumber(x) == [type |-> "float", name |-> "", number |-> x]

\* packing a value of a base type: the name of the named value it equals
\* exactly, otherwise the number
pack_scalar(type, x) ==
  IF \E n \in DOMAIN Named(type) : Named(type)[n] = x
  THEN PlainName(CHOOSE n \in DOMAIN Named(type) : Named(type)[n] = x)
  ELSE PlainNumber(x)

\* the value of a base type made from a plain scalar
unpack_scalar(type, p) ==
  IF p.type = "str" THEN Named(type)[p.name] ELSE p.number

\* sorted(names) for the names of outcomes
SortedOutcomeNames(names) ==
  InPoolOrder(<<"", "ghost", "hurt", "lose", "miss", "nick", "perk", "tip">>, names, 1)

\* the Option and the Choice with their dicts: outcomes by name, options
\* by name
OptionObject(option) ==
  [name |-> option.name,
   outcomes |-> [n \in Range(option.outcomes) |-> OutcomeNamed(n)]]

ChoiceObject(ch) ==
  [name |-> ch.name,
   options |-> [n \in OptionNames(ch) |-> OptionObject(OptionNamed(ch, n))]]

\* a Decision at a choice with its option (None or the Option of that
\* name), no outcomes and no impressions
DecisionObject(ch, option) ==
  [choice |-> ChoiceObject(ch),
   option |-> IF option = None THEN None
              ELSE Some(OptionObject(OptionNamed(ch, option[1]))),
   outcomes |-> <<>>,
   prospective_impressions |-> None, factored_decision_models |-> None,
   goal_relevance |-> None, retrospective_impressions |-> None,
   simplified_retrospectives |-> None]

\* a DecisionMethod object, by the name of its class attribute
DecisionMethodObject(name) == [type |-> "DecisionMethod", name |-> name]

Packed(value) == [status |-> "ok", value |-> value]
PackRaised(error) == [status |-> error, value |-> None]

\* Outcome._pack_ (choice.py lines 156-176): the actual likelihood is
\* left out when it equals the apparent one
Outcome_pack(o) ==
  LET common == [name |-> o.name,
                 salience |-> pack_scalar("Visibility", o.salience),
                 apparent_likelihood |-> pack_scalar("Certainty", o.apparent_likelihood),
                 effects |-> [g \in DOMAIN o.goal_effects |->
                                pack_scalar("Valence", o.goal_effects[g])]]
  IN  IF o.apparent_likelihood = o.actual_likelihood THEN common
      ELSE common @@ ( "actual_likelihood" :>
                         pack_scalar("Certainty", o.actual_likelihood) )

\* Outcome._unpack_ (lines 178-190)
Outcome_unpack(obj) ==
  Outcome(obj.name,
          [g \in DOMAIN obj.effects |-> unpack_scalar("Valence", obj.effects[g])],
          unpack_scalar("Visibility", obj.salience),
          unpack_scalar("Certainty", obj.apparent_likelihood),
          IF "actual_likelihood" \in DOMAIN obj
          THEN Some(unpack_scalar("Certainty", obj["actual_likelihood"]))
          ELSE None)

\* Option._pack_ (lines 296-302): the outcomes in the order of their names
Option_pack(option) ==
  [name |-> option.name,
   outcomes |-> LET keys == SortedOutcomeNames(DOMAIN option.outcomes)
                IN  [i \in 1..Len(keys) |-> Outcome_pack(option.outcomes[keys[i]])]]

\* Option._unpack_ (lines 312-320), for outcomes of different names
Option_unpack(obj) ==
  [name |-> obj.name,
   outcomes |-> [n \in { obj.outcomes[i].name : i \in 1..Len(obj.outcomes) } |->
                   Outcome_unpack(obj.outcomes[CHOOSE i \in 1..Len(obj.outcomes) :
                                                 obj.outcomes[i].name = n])]]

\* Choice._pack_ (lines 551-554): pack of the dict of options
Choice_pack(ch) ==
  [name |-> ch.name,
   options |-> [n \in DOMAIN ch.options |-> Option_pack(ch.options[n])]]

\* Choice._unpack_ (lines 557-566): the options are keyed by their own
\* names again
Choice_unpack(obj) ==
  [name |-> obj.name,
   options |-> [n \in { obj.options[k].name : k \in DOMAIN obj.options } |->
                  Option_unpack(obj.options[CHOOSE k \in DOMAIN obj.options :
                                              obj.options[k].name = n])]]

\* Decision._pack_ (decision.py lines 775-785): pack(None) is None
Decision_pack(d) ==
  [choice |-> Choice_pack(d.choice),
   option |-> IF d.option = None THEN None ELSE Some(Option_pack(d.option[1])),
   outcomes |-> <<>>,
   prospective_impressions |-> None, factored_decision_models |-> None,
   goal_relevance |-> None, retrospective_impressions |-> None]

\* Decision._unpack_ (lines 804-831): the option is unpacked as an Option
\* whatever it is, and Option._unpack_ subscripts it
Decision_unpack(obj) ==
  IF obj.option = None THEN PackRaised("TypeError")
  ELSE Packed([choice |-> Choice_unpack(obj.choice),
               option |-> Some(Option_unpack(obj.option[1])),
               outcomes |-> <<>>,
               prospective_impressions |-> None, factored_decision_models |-> None,
               goal_relevance |-> None, retrospective_impressions |-> None,
               simplified_retrospectives |-> None])

\* DecisionMethod._pack_ and _unpack_ (lines 59-84)
DecisionMethod_pack(dm) == dm.name

DecisionMethod_unpack(obj) ==
  IF obj \in DecisionMethods THEN Packed(DecisionMethodObject(obj))
  ELSE PackRaised("ValueError")

PackedClasses == {"Outcome", "Option", "Choice", "Decision", "DecisionMethod"}

\* packable.pack(obj) for an object of class cls
pack(cls, obj) ==
  CASE cls = "Outcome" -> Packed(Outcome_pack(obj))
    [] cls = "Option" -> Packed(Option_pack(obj))
    [] cls = "Choice" -> Packed(Choice_pack(obj))
    [] cls = "Decision" -> Packed(Decision_pack(obj))
    [] cls = "DecisionMethod" -> Packed(DecisionMethod_pack(obj))

\* packable.unpack(obj, cls)
unpack(cls, obj) ==
  CASE cls = "Outcome" -> Packed(Outcome_unpack(obj))
    [] cls = "Option" -> Packed(Option_unpack(obj))
    [] cls = "Choice" -> Packed(Choice_unpack(obj))
    [] cls = "Decision" -> Decision_unpack(obj)
    [] cls = "DecisionMethod" -> DecisionMethod_unpack(obj)

\* the objects that are packed: the outcomes, options of up to MaxOutcomes
\* outcomes, choices of up to two such options with at most one outcome,
\* decisions at those choices with and without an option, the methods
PackedOptions ==
  { Option("go", outs) : outs \in OutcomeLists(Range(OutcomePool), MaxOutcomes) }

PackedChoices == ChoicesOver(OutcomeLists({"tip", "nick", "perk"}, 1), 2)

ObjectsOf(cls) ==
  CASE cls = "Outcome" -> { OutcomeNamed(n) : n \in Range(OutcomePool) }
    [] cls = "Option" -> { OptionObject(o) : o \in PackedOptions }
    [] cls = "Choice" -> { ChoiceObject(ch) : ch \in PackedChoices }
    [] cls = "Decision" ->
         UNION { { DecisionObject(ch, option) :
                     option \in {None} \cup { Some(n) : n \in OptionNames(ch) } } :
                 ch \in PackedChoices }
    [] cls = "DecisionMethod" -> { DecisionMethodObject(n) : n \in DecisionMethods }

\* the plain structures that are unpacked: what pack gives for the objects,
\* and for an outcome also the structure that states an actual likelihood
\* equal to the apparent one
PlainsOf(cls) ==
  { pack(cls, obj).value : obj \in ObjectsOf(cls) }
  \cup ( IF cls # "Outcome" THEN {}
         ELSE { p @@ ("actual_likelihood" :> p.apparent_likelihood) :
                  p \in { pack(cls, obj).value : obj \in ObjectsOf(cls) } } )

\* no round trip has been made with the input
RoundTrip(cls, direction, input) ==
  [cls |-> cls, direction |-> direction, input |-> input,
   status |-> "none", output |-> None]

\* unpack(pack(obj), cls) for the object drawn
UnpackPacked ==
  /\ roundtrip.status = "none"
  /\ roundtrip.direction = "object"
  /\ \E packed \in { pack(roundtrip.cls, roundtrip.input) } :
     \E unpacked \in { IF packed.status # "ok" THEN packed
                       ELSE unpack(roundtrip.cls, packed.value) } :
       roundtrip' = [roundtrip EXCEPT !.status = unpacked.status,
                                      !.output = unpacked.value]
  /\ UNCHANGED <<breakdowns, combined, trace, analysis>>
  /\ UNCHANGED <<goalVars, playerVars, decisionVars>>

\* pack(unpack(obj, cls)) for the plain structure drawn
PackUnpacked ==
  /\ roundtrip.status = "none"
  /\ roundtrip.direction = "plain"
  /\ \E unpacked \in { unpack(roundtrip.cls, roundtrip.input) } :
     \E packed \in { IF unpacked.status # "ok" THEN unpacked
                     ELSE pack(roundtrip.cls, unpacked.value) } :
       roundtrip' = [roundtrip EXCEPT !.status = packed.status,
                                      !.output = packed.value]
  /\ UNCHANGED <<breakdowns, combined, trace, analysis>>
  /\ UNCHANGED <<goalVars, playerVars, decisionVars>>

PackingNext ==
  \/ UnpackPacked
  \/ PackUnpacked

\* An object to pack and unpack, or a plain structure to unpack and pack.
InitPacking ==
  /\ GOALS_REGISTRY = [n \in GoalNames |-> NoGoal]
  /\ allocated = 0
  /\ lastNew = NoNew
  /\ pc = [t \in Threads |-> "idle"]
  /\ call = [t \in Threads |-> NoCall]
  /\ ret = [t \in Threads |-> NoGoal]
  /\ modes = <<>>
  /\ mode_ranking = <<>>
  /\ mode_adjustments = <<>>
  /\ goal_adjustments = <<>>
  /\ goal_overrides = <<>>
  /\ synthesized = NoSynthesis
  /\ player = "unbuilt"
  /\ priority_method = softpriority
  /\ decision_method = "utilizing"
  /\ edits = 0
  /\ priorities_of = <<>>
  /\ choice = NoChoice
  /\ decision = NoDecision
  /\ result = NoResult
  /\ completed = NoneCompleted
  /\ breakdowns = <<>>
  /\ combined = NotCombined
  /\ trace = <<>>
  /\ analysis = NotAnalyzed
  /\ \E cls \in PackedClasses :
       \/ \E obj \in ObjectsOf(cls) : roundtrip = RoundTrip(cls, "object", obj)
       \/ \E p \in PlainsOf(cls) : roundtrip = RoundTrip(cls, "plain", p)

SpecPacking == InitPacking /\ [][PackingNext]_vars

\* ------------------------------------------------------------------------
\* Properties of the goal registry
\* ------------------------------------------------------------------------

\* C7: when several threads construct a goal with the same class and name,
\* every one of them that has returned holds the same instance, and that
\* instance is the one the registry holds for the name.
C7_ThreadsShareInstance ==
  \A t1 \in Threads, t2 \in Threads :
    ( /\ pc[t1] = "done" /\ pc[t2] = "done"
      /\ call[t1] = call[t2] )
    => /\ ret[t1] = ret[t2]
       /\ ret[t1] = GOALS_REGISTRY[call[t1].name]

\* C8 (as claimed): constructing a goal with an already registered name
\* yields the goal registered under that name, whatever class is used, and
\* no registry entry is ever removed or replaced.
C8_DuplicateYieldsRegistered ==
  [][ /\ \A n \in GoalNames :
           GOALS_REGISTRY[n] # NoGoal => GOALS_REGISTRY'[n] = GOALS_REGISTRY[n]
      /\ ( /\ lastNew'.name \in GoalNames
           /\ GOALS_REGISTRY[lastNew'.name] # NoGoal )
         => lastNew'.result = GOALS_REGISTRY[lastNew'.name]
    ]_vars

\* C8 (amended): constructing a goal with an already registered name yields
\* the registered goal when the class used is the class it was registered
\* with and raises TypeError otherwise; in both cases the registry is left as
\* it was.  The registry is append-only: an entry is never removed or
\* replaced, and every entry is filed under its own name.
C8_RegistryInterned ==
  [][ /\ \A n \in GoalNames :
           /\ GOALS_REGISTRY[n] # NoGoal => GOALS_REGISTRY'[n] = GOALS_REGISTRY[n]
           /\ GOALS_REGISTRY'[n] # NoGoal => GOALS_REGISTRY'[n].name = n
      /\ ( /\ lastNew'.name \in GoalNames
           /\ GOALS_REGISTRY[lastNew'.name] # NoGoal )
         => /\ GOALS_REGISTRY' = GOALS_REGISTRY
            /\ lastNew'.result =
                 IF GOALS_REGISTRY[lastNew'.name].type = lastNew'.cls
                 THEN GOALS_REGISTRY[lastNew'.name]
                 ELSE TypeError
    ]_vars

\* C8 witness: a name registered earlier was constructed again with its own
\* class and the registered goal came back, while another name is registered
\* with a different class.
C8_Witness ==
  /\ lastNew.registered
  /\ lastNew.result = GOALS_REGISTRY[lastNew.name]
  /\ \E n \in GoalNames :
       /\ GOALS_REGISTRY[n] # NoGoal
       /\ GOALS_REGISTRY[n].type # lastNew.cls

\* ------------------------------------------------------------------------
\* Properties of priority synthesis
\* ------------------------------------------------------------------------

\* the goals that appear only in modes ranked at the rank of mode m or lower
OnlyRankedAtOrBelow(m) ==
  { g \in AllModeGoals(modes) :
      \A n \in DOMAIN modes :
        g \in modes[n].goals => mode_ranking[n] >= mode_ranking[m] }

\* C2: without overrides, whenever mode M1 is ranked above mode M2, every goal
\* of M1 has a strictly smaller synthesized priority than every goal that
\* appears only in modes ranked at M2's rank or lower, whatever the (positive
\* or negative) mode and goal adjustments are.
C2_RankedModesStayOrdered ==
  ( /\ player = "built"
    /\ DOMAIN goal_overrides = {} )
  => \A M1 \in DOMAIN modes, M2 \in DOMAIN modes :
       mode_ranking[M1] < mode_ranking[M2]
       => \A g1 \in modes[M1].goals, g2 \in OnlyRankedAtOrBelow(M2) :
            synthesized.moe.priorities[g1] < synthesized.moe.priorities[g2]

\* C10: for every player model, synthesis completes, the synthesized priority
\* map has exactly the goals of the player's modes as its keys, and
\* synthesizing again (in any iteration order) yields the identical map.
C10_SynthesisCompletesAndIsTotal ==
  player # "unbuilt"
  => /\ synthesized.status = "ok"
     /\ synthesized.moe.goals = AllModeGoals(modes)
     /\ DOMAIN synthesized.moe.priorities = AllModeGoals(modes)
     /\ \A order \in Orders(DOMAIN mode_ranking) :
          SynthesizeMoe(PlayerInputs, order) = synthesized

\* ------------------------------------------------------------------------
\* Properties of decisions and decision methods
\* ------------------------------------------------------------------------

InUnitInterval(x) == RLe(RZero, x) /\ RLe(x, ROne)

\* C3: each perception stage of a Decision is added at most once: once
\* add_prospective_impressions, add_retrospective_impressions or
\* add_simplified_retrospectives has returned without error, no later call
\* of the same operation on that Decision returns without error.
C3_StagesAddedAtMostOnce ==
  \A st \in Stages : completed[st] <= 1

\* C4: for each of the four methods, decide on a Decision without
\* prospective impressions does not return, and consistency on a Decision
\* without a chosen option or without prospective impressions does not
\* return.
C4_MethodsRejectUnpreparedDecisions ==
  /\ ( result.op = "decide" /\ decision.prospective_impressions = None )
       => result.status # "ok"
  /\ ( /\ result.op = "consistency"
       /\ ( decision.option = None \/ decision.prospective_impressions = None ) )
       => result.status # "ok"

\* C5: whenever Utilizing.decide draws an option, the list it draws from
\* holds every option of the top class of rank_options exactly once, and
\* nothing else.
C5_CandidatesAreTopClassOnce ==
  ( result.method = "utilizing" /\ result.candidates # <<>> )
    => /\ Range(result.candidates) = Range(result.ranked[1].options)
       /\ \A i \in 1..Len(result.candidates), j \in 1..Len(result.candidates) :
            result.candidates[i] = result.candidates[j] => i = j

\* C9: Maximizing.consistency and Satisficing.consistency on a Decision
\* with a chosen option and prospective impressions return a number in
\* [0, 1].
C9_UnimplementedConsistencyInUnitInterval ==
  ( /\ result.op = "consistency"
    /\ result.method \in {"maximizing", "satisficing"}
    /\ decision.option # None
    /\ Truthy(decision.prospective_impressions) )
    => /\ result.returned = "number"
       /\ InUnitInterval(result.value[1])

\* C1: Utilizing.consistency on a Decision with a chosen option and
\* prospective impressions returns a value c with 0 <= c <= 1.
C1_UtilizingConsistencyInUnitInterval ==
  ( /\ result.op = "assess_decision"
    /\ result.method = "utilizing"
    /\ decision.option # None
    /\ Truthy(decision.prospective_impressions) )
    => /\ result.returned = "number"
       /\ InUnitInterval(result.value[1])

\* ------------------------------------------------------------------------
\* Properties of combine_per_choice
\* ------------------------------------------------------------------------

\* two of the results passed have an entry for the same choice with
\* different sets of model names
ModelSetsMismatch(args) ==
  \E i \in 1..Len(args), j \in 1..Len(args) :
    \E key \in DOMAIN args[i] \cap DOMAIN args[j] :
      DOMAIN args[i][key].averages # DOMAIN args[j][key].averages

\* C6: combine_per_choice raises an error whenever two of the results
\* combined have an entry for the same choice name with different sets of
\* model names; it never returns in that case.
C6_MismatchedModelSetsRaise ==
  ( combined.status # "none" /\ ModelSetsMismatch(combined.args) )
    => combined.status # "ok"

\* ------------------------------------------------------------------------
\* Properties of the synthesis after changes to its inputs
\* ------------------------------------------------------------------------

SynthesisReaders == {"combined_mode_of_engagement", "assess_decision", "make_decision"}

\* C11: after any changes to the goals and priorities of the modes, to the
\* mode ranking, the mode adjustments, the goal adjustments and the goal
\* overrides, combined_mode_of_engagement, assess_decision and
\* make_decision leave the synthesized mode equal to the synthesis of the
\* inputs as they are now, and the Decision of assess_decision and
\* make_decision holds the prospective impressions of that mode.
C11_ReadersUseSynthesisOfCurrentInputs ==
  result.op \in SynthesisReaders =>
    \E order \in Orders(DOMAIN mode_ranking) :
    \E fresh \in { SynthesizeMoe(PlayerInputs, order) } :
      /\ synthesized = fresh
      /\ (result.op # "combined_mode_of_engagement" /\ fresh.status = "ok") =>
           decision.prospective_impressions = Some(build_decision_model(fresh.moe, choice))

\* assess_decision has run after the priority of health was raised to 2
\* in the first mode, and the synthesized mode has the new priority
C11_Witness ==
  /\ result.op = "assess_decision"
  /\ result.status = "ok"
  /\ edits > 0
  /\ modes[ModeNamePool[1]].priorities = ("health" :> 2)
  /\ synthesized.status = "ok"
  /\ synthesized.moe.priorities["health"] = 2

\* ------------------------------------------------------------------------
\* Properties of modes of engagement
\* ------------------------------------------------------------------------

\* C12: every mode that was constructed has, after any constructions and
\* any add_goal, remove_goal and set_priority calls, a priority for each of
\* its goals and for nothing else.
C12_PrioritiesKeyedByGoals ==
  \A mn \in DOMAIN modes : DOMAIN modes[mn].priorities = modes[mn].goals

\* C13: constructing a mode of engagement or a player model never fails for
\* an entry that names a goal or a mode that does not exist: the
\* construction succeeds, and the player model has a rank and an adjustment
\* for exactly its modes, an adjustment for exactly their goals, and
\* overrides for goals of its modes only.
C13_SpuriousKeysAreDropped ==
  /\ result.op = "ModeOfEngagement" => result.status = "ok"
  /\ result.op = "PlayerModel" =>
       /\ result.status = "ok"
       /\ player = "built"
       /\ DOMAIN mode_ranking = DOMAIN modes
       /\ DOMAIN mode_adjustments = DOMAIN modes
       /\ DOMAIN goal_adjustments = AllModeGoals(modes)
       /\ DOMAIN goal_overrides \subseteq AllModeGoals(modes)

\* ------------------------------------------------------------------------
\* Properties of combine_per_choice
\* ------------------------------------------------------------------------

\* every entry of every result has averages for the same player models
SameModelSet(args) ==
  \A i \in 1..Len(args), j \in 1..Len(args) :
    \A ki \in DOMAIN args[i], kj \in DOMAIN args[j] :
      DOMAIN args[i][ki].averages = DOMAIN args[j][kj].averages

RECURSIVE TotalWeight(_, _, _)
\* the sum of the counts that the first n results have for the choice key
TotalWeight(args, key, n) ==
  IF n = 0 THEN 0
  ELSE TotalWeight(args, key, n - 1)
       + (IF key \in DOMAIN args[n] THEN args[n][key].weight ELSE 0)

RECURSIVE WeightedTotal(_, _, _, _)
\* the sum of count times average of model pmn over the first n results
\* that have the choice key
WeightedTotal(args, key, pmn, n) ==
  IF n = 0 THEN RZero
  ELSE RAdd(WeightedTotal(args, key, pmn, n - 1),
            IF key \in DOMAIN args[n]
            THEN RMul(args[n][key].averages[pmn], RInt(args[n][key].weight))
            ELSE RZero)

\* C14: when all the results combined use the same set of player models,
\* combine_per_choice returns, for each choice name of any of them, the sum
\* of the counts and for each model the mean weighted by the counts; an
\* entry that only one result has is returned as it is.
C14_CombinedCountsAndWeightedMeans ==
  ( combined.status # "none" /\ SameModelSet(combined.args) ) =>
    LET args == combined.args
        n == Len(args)
    IN  /\ combined.status = "ok"
        /\ DOMAIN combined.result = UNION { DOMAIN args[i] : i \in 1..n }
        /\ \A key \in DOMAIN combined.result :
             /\ combined.result[key].weight = TotalWeight(args, key, n)
             /\ DOMAIN combined.result[key].averages
                  = UNION { DOMAIN args[i][key].averages :
                              i \in { j \in 1..n : key \in DOMAIN args[j] } }
             /\ \A pmn \in DOMAIN combined.result[key].averages :
                  combined.result[key].averages[pmn]
                    = RDiv(WeightedTotal(args, key, pmn, n),
                           RInt(TotalWeight(args, key, n)))
             /\ \A i \in 1..n :
                  ( /\ key \in DOMAIN args[i]
                    /\ \A j \in 1..n \ {i} : key \notin DOMAIN args[j] )
                  => combined.result[key] = args[i][key]

\* count 3 with mean 0.6 and count 1 with mean 1.0 for the choice "door"
\* were combined into count 4 with mean 0.7, and "bridge", which only one
\* of the results has, is in the outcome too
C14_Witness ==
  /\ combined.status = "ok"
  /\ Len(combined.args) = 2
  /\ SameModelSet(combined.args)
  /\ "door" \in DOMAIN combined.args[1] /\ "door" \in DOMAIN combined.args[2]
  /\ combined.args[1]["door"] = Entry(3, ("M" :> Rat(3, 5)))
  /\ combined.args[2]["door"] = Entry(1, ("M" :> ROne))
  /\ "bridge" \in DOMAIN combined.args[1] /\ "bridge" \notin DOMAIN combined.args[2]
  /\ combined.result["door"] = Entry(4, ("M" :> Rat(7, 10)))
  /\ combined.result["bridge"] = combined.args[1]["bridge"]

\* two calls have the same outcome: both raise, or both return the same
\* counts and means
SameOutcome(x, y) ==
  IF x.status = "ok" THEN y.status = "ok" /\ y.result = x.result
  ELSE y.status # "ok"

\* combine_per_choice(x, other) for the outcome x of an inner call, which
\* raises when the inner call does
CombineWith(x, other, inner_first) ==
  IF x.status # "ok" THEN x
  ELSE IF inner_first THEN combine_per_choice(<<x.result, other>>)
  ELSE combine_per_choice(<<other, x.result>>)

\* C15: combining is commutative and associative: for results A, B,
\* combine(A, B) and combine(B, A) have the same outcome, and for A, B, C
\* so have combine(combine(A, B), C), combine(A, combine(B, C)) and
\* combine(A, B, C), where an outcome is the counts and means returned or
\* the fact that the call raised.
C15_CombineCommutativeAssociative ==
  combined.status # "none" =>
    LET args == combined.args
        all == [status |-> combined.status, result |-> combined.result]
    IN  /\ Len(args) = 2 =>
             SameOutcome(all, combine_per_choice(<<args[2], args[1]>>))
        /\ Len(args) = 3 =>
             /\ SameOutcome(all, CombineWith(combine_per_choice(<<args[1], args[2]>>),
                                             args[3], TRUE))
             /\ SameOutcome(all, CombineWith(combine_per_choice(<<args[2], args[3]>>),
                                             args[1], FALSE))

\* ------------------------------------------------------------------------
\* Properties of ranking under hard priorities
\* ------------------------------------------------------------------------

\* the position in ranked of the class that holds the option
RankOf(ranked, option) ==
  CHOOSE k \in 1..Len(ranked) : option \in Range(ranked[k].options)

\* C16: with HardPriority, Utilizing ranks the options by the first of the
\* factored decision models, which has only the goals of the most important
\* priority level: an option with a greater utility in that model is never
\* ranked below one with a smaller utility there, so that less important
\* goals can only decide between options that tie on the most important ones.
C16_HardPriorityRanksByFirstLevel ==
  ( /\ priority_method = HardPriority
    /\ result.method = "utilizing"
    /\ result.ranked # <<>>
    /\ Truthy(decision.factored_decision_models) ) =>
    LET first == Utilities(decision.factored_decision_models[1][1],
                           decision.goal_relevance[1])
    IN  \A i \in 1..Len(first), j \in 1..Len(first) :
          RLt(first[j].u, first[i].u) =>
            RankOf(result.ranked, first[i].option)
              <= RankOf(result.ranked, first[j].option)

\* the utility that rank_options computes for the option of the decision
UtilityOf(d, option) ==
  LET utilities == Utilities(d.prospective_impressions[1], d.goal_relevance[1])
  IN  utilities[CHOOSE i \in 1..Len(utilities) : utilities[i].option = option].u

\* C17: no class of the ranking that rank_options returns holds both an
\* option of utility above zero and an option of utility zero or below.
C17_ClassesDoNotStraddleZero ==
  ( /\ result.method = "utilizing"
    /\ result.ranked # <<>>
    /\ Truthy(decision.goal_relevance) ) =>
    \A k \in 1..Len(result.ranked) :
      \A a \in Range(result.ranked[k].options), b \in Range(result.ranked[k].options) :
        ~ ( /\ RLt(RZero, UtilityOf(decision, a))
            /\ RLe(UtilityOf(decision, b), RZero) )

\* options were ranked whose utilities are closer than the resolution, one
\* above zero and one at zero, and they are in different classes
C17_Witness ==
  /\ result.method = "utilizing"
  /\ Len(result.ranked) >= 2
  /\ RLt(RZero, result.ranked[1].u)
  /\ result.ranked[2].u = RZero
  /\ RLt(RSub(result.ranked[1].u, result.ranked[2].u), value_resolution)

\* ------------------------------------------------------------------------
\* Properties of the named values of certainty, valence and visibility
\* ------------------------------------------------------------------------

\* the type of the last abstract call had x in its range
InRange(type, x) == RLe(Least(type), x) /\ RLe(x, ROne)

\* C18: for each of the three types, abstract of the value of a named
\* value returns that named value, and abstract of the certainty 0.78
\* returns likely.
C18_AbstractOfNamedValueIsThatValue ==
  result.op = "abstract" =>
    /\ \A name \in DOMAIN Named(result.method) :
         Named(result.method)[name] = result.value[1]
           => result.status = "ok" /\ result.option = name
    /\ ( result.method = "Certainty" /\ result.value[1] = Rat(78, 100) )
         => result.status = "ok" /\ result.option = "likely"

\* the named value whose range begins at the threshold t of the type: the
\* one abstract gives to values just above t
NextAbove(type, t) ==
  abstract(type, CHOOSE x \in ProbedValues :
                   /\ RLt(t, x)
                   /\ \A y \in ProbedValues : RLt(t, y) => RLe(x, y)).name

\* the greatest of the probed values below 1, which is in the highest range
JustBelowOne ==
  CHOOSE x \in ProbedValues :
    /\ RLt(x, ROne)
    /\ \A y \in ProbedValues : RLt(y, ROne) => RLe(y, x)

\* C19: abstract returns a named value for every number in the range of
\* its type; a number on the boundary between two ranges gets the named
\* value of the higher range, and the greatest number of the type gets the
\* one of the highest range.
C19_AbstractTotalAndBoundariesGoUp ==
  ( result.op = "abstract" /\ InRange(result.method, result.value[1]) ) =>
    /\ result.status = "ok"
    /\ result.value[1] \in Thresholds(result.method)
         => result.option = NextAbove(result.method, result.value[1])
    /\ result.value[1] = ROne
         => result.option = abstract(result.method, JustBelowOne).name

\* ------------------------------------------------------------------------
\* Properties of the names of options and outcomes
\* ------------------------------------------------------------------------

\* no name occurs twice in the list
Distinct(names) ==
  \A i \in 1..Len(names), j \in 1..Len(names) : names[i] = names[j] => i = j

\* C20: an Option given two outcomes of one name and a Choice given two
\* options of one name are not constructed, whatever the name is;
\* add_outcome and add_option fail for a name that is already there; and
\* a choice holds one option per name and an option one outcome per name.
C20_SharedNamesAreRejected ==
  /\ ( result.op \in {"Option", "Choice"} /\ ~ Distinct(result.candidates) )
       => result.status # "ok"
  /\ ( result.op \in {"add_outcome", "add_option"}
       /\ result.option \in Range(result.candidates) )
       => result.status # "ok"
  /\ Distinct(NamesOf(choice.options))
  /\ \A i \in 1..Len(choice.options) : Distinct(choice.options[i].outcomes)

\* ------------------------------------------------------------------------
\* Properties of outcome sampling
\* ------------------------------------------------------------------------

\* C21: sample_outcomes returns a sample of the outcomes of the option, the
\* empty sample included: every outcome of the option whose actual
\* likelihood is 1 is in it and none whose actual likelihood is 0.
C21_SampleFollowsActualLikelihoods ==
  result.op = "sample_outcomes" =>
    /\ result.status = "ok"
    /\ Range(result.candidates) \subseteq Range(OptionNamed(choice, result.option).outcomes)
    /\ \A o \in Range(OptionNamed(choice, result.option).outcomes) :
         /\ OutcomeNamed(o).actual_likelihood = ROne => o \in Range(result.candidates)
         /\ OutcomeNamed(o).actual_likelihood = RZero => o \notin Range(result.candidates)

\* ------------------------------------------------------------------------
\* Properties of trace analysis
\* ------------------------------------------------------------------------

\* the consistency of model k for the i-th pick of the trace
PickConsistency(k, i) ==
  AssessDecision(TraceModels[k], TraceChoices[trace[i][1]], trace[i][2]).value[1]

\* the positions of the picks at the choice cname
PicksAt(cname) ==
  SelectSeq([i \in 1..Len(trace) |-> i], LAMBDA i : trace[i][1] = cname)

\* C22: analyze_trace returns, per model name, the trajectory of the
\* model's consistency for each pick and its arithmetic mean, and per
\* choice name of the trace the number of picks at that choice with the
\* mean consistency over those picks per model name.
C22_TraceAnalysisPerModelName ==
  analysis.status # "none" =>
    LET names == { NameKey(TraceModels[k].name) : k \in 1..Len(TraceModels) }
        IndexOf(key) == CHOOSE k \in 1..Len(TraceModels) : TraceModels[k].name = key.name
    IN  /\ analysis.status = "ok"
        /\ DOMAIN analysis.trajectories = names
        /\ DOMAIN analysis.averages = names
        /\ \A key \in names :
             /\ Len(analysis.trajectories[key]) = Len(trace)
             /\ \A i \in 1..Len(trace) :
                  analysis.trajectories[key][i] = PickConsistency(IndexOf(key), i)
             /\ RMul(analysis.averages[key], RInt(Len(trace)))
                  = RSum(analysis.trajectories[key])
        /\ DOMAIN analysis.per_choice = { trace[i][1] : i \in 1..Len(trace) }
        /\ \A cname \in DOMAIN analysis.per_choice :
             /\ analysis.per_choice[cname].weight = Len(PicksAt(cname))
             /\ DOMAIN analysis.per_choice[cname].averages = names
             /\ \A key \in names :
                  RMul(analysis.per_choice[cname].averages[key],
                       RInt(Len(PicksAt(cname))))
                    = RSum([n \in 1..Len(PicksAt(cname)) |->
                              PickConsistency(IndexOf(key), PicksAt(cname)[n])])

\* ------------------------------------------------------------------------
\* Properties of make_decision
\* ------------------------------------------------------------------------

\* C23: make_decision returns the Decision it built, and on return the
\* Decision has its prospective impressions, a selected option of the
\* choice, and its retrospective impressions with their simplification.
C23_MakeDecisionReturnsCompleteDecision ==
  result.op = "make_decision" =>
    /\ result.status = "ok"
    /\ result.returned = "Decision"
    /\ decision.exists
    /\ decision.prospective_impressions # None
    /\ decision.goal_relevance # None
    /\ decision.option # None
    /\ decision.option[1] \in OptionNames(choice)
    /\ decision.retrospective_impressions # None
    /\ decision.simplified_retrospectives # None

\* ------------------------------------------------------------------------
\* Properties of the selected option
\* ------------------------------------------------------------------------

\* C24: select_option with the name of an option of the choice, or with
\* an Option object of the choice, sets decision.option to that option and
\* changes nothing else of the Decision; an Option that is not part of the
\* choice is rejected with a ValueError and an unknown name with a
\* KeyError, decision.option staying as it was.
C24_SelectOptionByNameOrObject ==
  [][ \A selection \in Selections(choice) :
        SelectOption(selection) =>
          IF selection.type = "str" /\ selection.option.name \notin OptionNames(choice)
          THEN result'.status = "KeyError" /\ decision' = decision
          ELSE IF selection.type = "Option" /\ selection.option \notin Range(choice.options)
          THEN result'.status = "ValueError" /\ decision' = decision
          ELSE /\ result'.status = "ok"
               /\ decision' = [decision EXCEPT !.option = Some(selection.option.name)]
    ]_vars

\* C29: the option of a Decision, once set, is an option of the choice of
\* the Decision as the choice currently is, so that Utilizing.consistency
\* never fails to find the selected option among the ranked ones.
C29_SelectedOptionStaysInChoice ==
  /\ ( decision.exists /\ decision.option # None )
       => decision.option[1] \in OptionNames(choice)
  /\ ( result.op = "consistency" /\ result.method = "utilizing" )
       => result.status # "RuntimeError"

\* ------------------------------------------------------------------------
\* Properties of packing
\* ------------------------------------------------------------------------

\* C25: unpacking what pack gave for an object gives an object equal to
\* it, and packing what unpack gave for a plain structure gives that
\* plain structure, for outcomes, options, choices, decisions and decision
\* methods, whether or not an outcome's actual likelihood is the apparent
\* one.
C25_PackAndUnpackAreInverse ==
  roundtrip.status # "none" =>
    /\ roundtrip.status = "ok"
    /\ roundtrip.output = roundtrip.input

\* ------------------------------------------------------------------------
\* Properties of the synthesized priorities
\* ------------------------------------------------------------------------

\* the priority mode mn proposes for goal gn when its rank starts at base
Candidate(base, mn, gn) ==
  IF gn \in DOMAIN goal_overrides THEN goal_overrides[gn]
  ELSE base + modes[mn].priorities[gn] + mode_adjustments[mn] + goal_adjustments[gn]

\* the priorities proposed at rank r when it starts at base
CandidatesAt(r, base) ==
  { Candidate(base, mn, gn) :
      <<mn, gn>> \in { mg \in (DOMAIN mode_ranking) \X AllModeGoals(modes) :
                         /\ mode_ranking[mg[1]] = r
                         /\ mg[2] \in modes[mg[1]].goals } }

RECURSIVE BaseOf(_)
\* the base of rank r: 0 for the first rank, and one more than the largest
\* priority proposed at the rank before it for the others
BaseOf(r) ==
  LET below == { mode_ranking[mn] : mn \in { m \in DOMAIN mode_ranking :
                                               mode_ranking[m] < r } }
  IN  IF below = {} THEN 0
      ELSE LET before == CHOOSE q \in below : \A p \in below : p <= q
               proposed == CandidatesAt(before, BaseOf(before))
           IN  1 + CHOOSE x \in proposed : \A y \in proposed : y <= x

\* the priorities proposed for goal gn by the modes that define it
Proposed(gn) ==
  { Candidate(BaseOf(mode_ranking[mn]), mn, gn) :
      mn \in { m \in DOMAIN mode_ranking : gn \in modes[m].goals } }

ZeroBetween(u1, u2) ==
  \/ RLt(RZero, u1) /\ RLe(u2, RZero)
  \/ RLe(RZero, u1) /\ RLt(u2, RZero)

\* C27: in the list that rank_options returns the class values are
\* strictly descending, and every two adjacent classes are separated by
\* zero or differ by at least value_resolution.
C27_NoMergeablePairRemains ==
  ( /\ result.method = "utilizing"
    /\ result.ranked # <<>> ) =>
    \A k \in 1..(Len(result.ranked) - 1) :
      LET u1 == result.ranked[k].u
          u2 == result.ranked[k + 1].u
      IN  /\ RLt(u2, u1)
          /\ \/ ZeroBetween(u1, u2)
             \/ RLe(value_resolution, RSub(u1, u2))

\* a ranking whose first class was merged twice: it holds options of three
\* different utilities, the highest at least value_resolution above the
\* lowest
C27_Witness ==
  /\ result.method = "utilizing"
  /\ Len(result.ranked) >= 1
  /\ Truthy(decision.goal_relevance)
  /\ \E a \in Range(result.ranked[1].options),
        b \in Range(result.ranked[1].options),
        c \in Range(result.ranked[1].options) :
       /\ RLt(UtilityOf(decision, b), UtilityOf(decision, a))
       /\ RLt(UtilityOf(decision, c), UtilityOf(decision, b))
       /\ RLe(value_resolution,
              RSub(UtilityOf(decision, a), UtilityOf(decision, c)))

\* ------------------------------------------------------------------------
\* Properties of goal relevance
\* ------------------------------------------------------------------------

\* C28: every goal relevance that add_prospective_impressions attaches to
\* a decision lies between 0 and 1, whatever the priority method and the
\* synthesized priorities.
C28_GoalRelevanceIsSalience ==
  decision.goal_relevance # None =>
    \A g \in DOMAIN decision.goal_relevance[1] :
      /\ RLe(RZero, decision.goal_relevance[1][g])
      /\ RLe(decision.goal_relevance[1][g], ROne)

\* ------------------------------------------------------------------------
\* Properties of a failed retrospective stage
\* ------------------------------------------------------------------------

\* C30: a call of add_retrospective_impressions that raises leaves the
\* decision as it was, with retrospective_impressions and
\* simplified_retrospectives unset if they were unset before the call.
C30_FailedRetrospectivesLeaveDecisionUnchanged ==
  [][ ( /\ AddRetrospectiveImpressions
        /\ result'.status # "ok" ) =>
        /\ decision' = decision
        /\ decision.retrospective_impressions = None =>
             decision'.retrospective_impressions = None
        /\ decision.simplified_retrospectives = None =>
             decision'.simplified_retrospectives = None ]_vars

====
